---------------------------- MODULE Spec2Model ----------------------------
(***************************************************************************)
(* A model of the swear-word filter of src/swear_filter.py (SwearFilter and *)
(* the module-level text functions it calls).                              *)
(*                                                                         *)
(* Strings are sequences of characters; a character is a one-character     *)
(* TLA+ string, except the two invisible code points U+200B and U+2028,     *)
(* which are written "ZWSP" and "LSEP".  Every table of the source is      *)
(* restricted to the characters of Alphabet: an entry of the source whose  *)
(* key or value holds a character outside Alphabet is left out, nothing    *)
(* else is changed.                                                        *)
(***************************************************************************)
EXTENDS Integers, Sequences, FiniteSets, TLC

(***************************************************************************)
(* Characters.                                                             *)
(***************************************************************************)
\* The characters strings are built from, in code-point order.
Alphabet ==
  { " ", "!", "$", "'", "(", ")", "*", "-", ".", "0", "1", "2",
    "3", "4", "5", "6", "7", "8", "9", "@", "A", "B", "C", "D", "E", "F",
    "G", "H", "I", "J", "K", "L", "M", "N", "O", "P", "Q", "R", "S", "T",
    "U", "V", "W", "X", "Y", "Z", "_", "a", "b", "c", "d", "e", "f", "g",
    "h", "i", "j", "k", "l", "m", "n", "o", "p", "q", "r", "s", "t", "u",
    "v", "w", "x", "y", "z", "ZWSP", "LSEP" }

\* ord(c): the Unicode code point.
Ord ==
    " " :> 32 @@ "!" :> 33 @@ "$" :> 36 @@ "'" :> 39 @@
    "(" :> 40 @@ ")" :> 41 @@ "*" :> 42 @@ "-" :> 45 @@ "." :> 46 @@
    "0" :> 48 @@ "1" :> 49 @@ "2" :> 50 @@ "3" :> 51 @@ "4" :> 52 @@
    "5" :> 53 @@ "6" :> 54 @@ "7" :> 55 @@ "8" :> 56 @@ "9" :> 57 @@
    "@" :> 64 @@ "A" :> 65 @@ "B" :> 66 @@ "C" :> 67 @@ "D" :> 68 @@
    "E" :> 69 @@ "F" :> 70 @@ "G" :> 71 @@ "H" :> 72 @@ "I" :> 73 @@
    "J" :> 74 @@ "K" :> 75 @@ "L" :> 76 @@ "M" :> 77 @@ "N" :> 78 @@
    "O" :> 79 @@ "P" :> 80 @@ "Q" :> 81 @@ "R" :> 82 @@ "S" :> 83 @@
    "T" :> 84 @@ "U" :> 85 @@ "V" :> 86 @@ "W" :> 87 @@ "X" :> 88 @@
    "Y" :> 89 @@ "Z" :> 90 @@ "_" :> 95 @@ "a" :> 97 @@ "b" :> 98 @@
    "c" :> 99 @@ "d" :> 100 @@ "e" :> 101 @@ "f" :> 102 @@ "g" :> 103 @@
    "h" :> 104 @@ "i" :> 105 @@ "j" :> 106 @@ "k" :> 107 @@ "l" :> 108 @@
    "m" :> 109 @@ "n" :> 110 @@ "o" :> 111 @@ "p" :> 112 @@ "q" :> 113 @@
    "r" :> 114 @@ "s" :> 115 @@ "t" :> 116 @@ "u" :> 117 @@ "v" :> 118 @@
    "w" :> 119 @@ "x" :> 120 @@ "y" :> 121 @@ "z" :> 122 @@
    "ZWSP" :> 8203 @@ "LSEP" :> 8232

\* str.lower() and str.upper() on one character (identity where not listed).
LowerTable ==
    "A" :> "a" @@ "B" :> "b" @@ "C" :> "c" @@ "D" :> "d" @@ "E" :> "e" @@
    "F" :> "f" @@ "G" :> "g" @@ "H" :> "h" @@ "I" :> "i" @@ "J" :> "j" @@
    "K" :> "k" @@ "L" :> "l" @@ "M" :> "m" @@ "N" :> "n" @@ "O" :> "o" @@
    "P" :> "p" @@ "Q" :> "q" @@ "R" :> "r" @@ "S" :> "s" @@ "T" :> "t" @@
    "U" :> "u" @@ "V" :> "v" @@ "W" :> "w" @@ "X" :> "x" @@ "Y" :> "y" @@
    "Z" :> "z"

UpperTable ==
    "a" :> "A" @@ "b" :> "B" @@ "c" :> "C" @@ "d" :> "D" @@ "e" :> "E" @@
    "f" :> "F" @@ "g" :> "G" @@ "h" :> "H" @@ "i" :> "I" @@ "j" :> "J" @@
    "k" :> "K" @@ "l" :> "L" @@ "m" :> "M" @@ "n" :> "N" @@ "o" :> "O" @@
    "p" :> "P" @@ "q" :> "Q" @@ "r" :> "R" @@ "s" :> "S" @@ "t" :> "T" @@
    "u" :> "U" @@ "v" :> "V" @@ "w" :> "W" @@ "x" :> "X" @@ "y" :> "Y" @@
    "z" :> "Z"

Lower(c) == IF c \in DOMAIN LowerTable THEN LowerTable[c] ELSE c

Upper(c) == IF c \in DOMAIN UpperTable THEN UpperTable[c] ELSE c

\* The regex class \s, which on Alphabet is also str.isspace().
Whitespace == { " ", "LSEP" }

\* The regex class \w.
WordChars ==
  { "0", "1", "2", "3", "4", "5", "6", "7", "8", "9", "A", "B", "C", "D",
    "E", "F", "G", "H", "I", "J", "K", "L", "M", "N", "O", "P", "Q", "R",
    "S", "T", "U", "V", "W", "X", "Y", "Z", "_", "a", "b", "c", "d", "e",
    "f", "g", "h", "i", "j", "k", "l", "m", "n", "o", "p", "q", "r", "s",
    "t", "u", "v", "w", "x", "y", "z" }

\* The regex class [a-zA-Z0-9].
AsciiAlnum ==
  { "0", "1", "2", "3", "4", "5", "6", "7", "8", "9", "A", "B", "C", "D",
    "E", "F", "G", "H", "I", "J", "K", "L", "M", "N", "O", "P", "Q", "R",
    "S", "T", "U", "V", "W", "X", "Y", "Z", "a", "b", "c", "d", "e", "f",
    "g", "h", "i", "j", "k", "l", "m", "n", "o", "p", "q", "r", "s", "t",
    "u", "v", "w", "x", "y", "z" }

\* The regex class [a-z] under (?i).
AsciiLetters ==
  { "A", "B", "C", "D", "E", "F", "G", "H", "I", "J", "K", "L", "M", "N",
    "O", "P", "Q", "R", "S", "T", "U", "V", "W", "X", "Y", "Z", "a", "b",
    "c", "d", "e", "f", "g", "h", "i", "j", "k", "l", "m", "n", "o", "p",
    "q", "r", "s", "t", "u", "v", "w", "x", "y", "z" }

\* The regex class [a-z].
LowerLetters ==
  { "a", "b", "c", "d", "e", "f", "g", "h", "i", "j", "k", "l", "m", "n",
    "o", "p", "q", "r", "s", "t", "u", "v", "w", "x", "y", "z" }

(***************************************************************************)
(* Strings.                                                                *)
(***************************************************************************)
Min(a, b) == IF a < b THEN a ELSE b

Max(a, b) == IF a < b THEN b ELSE a

\* s[i:j] of Python, for 0 <= i and with j capped at len(s).
Slice(s, i, j) == SubSeq(s, i + 1, Min(j, Len(s)))

\* str.lower() and str.upper().
lower(s) == [i \in 1..Len(s) |-> Lower(s[i])]

upper(s) == [i \in 1..Len(s) |-> Upper(s[i])]

\* str.strip(): leading and trailing whitespace removed.
strip(s) ==
  LET keep == {i \in 1..Len(s) : s[i] \notin Whitespace}
  IN  IF keep = {} THEN <<>>
      ELSE LET a == CHOOSE i \in keep : \A j \in keep : i <= j
               b == CHOOSE i \in keep : \A j \in keep : j <= i
           IN  SubSeq(s, a, b)

\* The characters of s that satisfy Keep(_), in order.
RECURSIVE FilterChars(_, _)
FilterChars(s, keepSet) ==
  IF s = <<>> THEN <<>>
  ELSE (IF Head(s) \in keepSet THEN <<Head(s)>> ELSE <<>>)
         \o FilterChars(Tail(s), keepSet)

\* Whether lit occurs in s at 0-based offset i; with fold, ignoring case.
MatchAt(s, i, lit, fold) ==
  /\ i + Len(lit) <= Len(s)
  /\ \A k \in 1..Len(lit) :
       IF fold THEN Lower(s[i + k]) = Lower(lit[k]) ELSE s[i + k] = lit[k]

\* The Python test `a in b` on strings.
IsSubstring(a, b) == \E i \in 0..(Len(b) - Len(a)) : MatchAt(b, i, a, FALSE)

\* re.sub(re.escape(lit), repl, s), with re.IGNORECASE when fold: the
\* occurrences of lit are replaced from left to right, none overlapping.
RECURSIVE ReplaceLit(_, _, _, _)
ReplaceLit(s, lit, repl, fold) ==
  IF s = <<>> THEN <<>>
  ELSE IF MatchAt(s, 0, lit, fold)
       THEN repl \o ReplaceLit(SubSeq(s, Len(lit) + 1, Len(s)), lit, repl, fold)
       ELSE <<Head(s)>> \o ReplaceLit(Tail(s), lit, repl, fold)

\* The regex assertion \b at 0-based offset i of s.
WordBoundary(s, i) ==
  LET before == i >= 1 /\ i <= Len(s) /\ s[i] \in WordChars
      after  == i < Len(s) /\ s[i + 1] \in WordChars
  IN  before # after

\* sorted(chars): a sequence holding the characters of the set cs in
\* code-point order.
RECURSIVE SortedChars(_)
SortedChars(cs) ==
  IF cs = {} THEN <<>>
  ELSE LET c == CHOOSE x \in cs : \A y \in cs : Ord[x] <= Ord[y]
       IN  <<c>> \o SortedChars(cs \ {c})

\* Insertion of character c into the code-point-sorted sequence s.
RECURSIVE InsertSorted(_, _)
InsertSorted(c, s) ==
  IF s = <<>> THEN <<c>>
  ELSE IF Ord[c] <= Ord[Head(s)] THEN <<c>> \o s
       ELSE <<Head(s)>> \o InsertSorted(c, Tail(s))

\* ''.join(sorted(s)).
RECURSIVE SortString(_)
SortString(s) ==
  IF s = <<>> THEN <<>> ELSE InsertSorted(Head(s), SortString(Tail(s)))

(***************************************************************************)
(* The substitution tables (src/swear_filter.py, lines 23-112, 136-146).   *)
(***************************************************************************)
\* COMBINED_SUBSTITUTIONS after the sort of lines 91-92: for each base
\* character, in the order of the keys, its variants sorted by (length, text).
COMBINED_SUBSTITUTIONS ==
  <<
    <<"a", << <<"*">>, <<"4">>, <<"@">>, <<"a">> >> >>,
    <<"b", << <<"*">>, <<"6">>, <<"8">>, <<"b">> >> >>,
    <<"c", << <<"(">>, <<"*">>, <<"c">> >> >>,
    <<"d", << <<"d">> >> >>,
    <<"e", << <<"*">>, <<"3">>, <<"e">> >> >>,
    <<"f", << <<"f">> >> >>,
    <<"g", << <<"9">>, <<"g">> >> >>,
    <<"h", << <<"h">> >> >>,
    <<"i", << <<"!">>, <<"*">>, <<"1">>, <<"i">> >> >>,
    <<"j", << <<"j">> >> >>,
    <<"k", << <<"k">> >> >>,
    <<"l", << <<"*">>, <<"1">>, <<"I">>, <<"i">>, <<"l">> >> >>,
    <<"m", << <<"m">> >> >>,
    <<"n", << <<"n">> >> >>,
    <<"o", << <<"*">>, <<"0">>, <<"o">>, <<"(", ")">> >> >>,
    <<"p", << <<"p">> >> >>,
    <<"q", << <<"q">> >> >>,
    <<"r", << <<"r">> >> >>,
    <<"s", << <<"$">>, <<"*">>, <<"5">>, <<"s">> >> >>,
    <<"t", << <<"*">>, <<"7">>, <<"t">> >> >>,
    <<"u", << <<"*">>, <<"@">>, <<"u">>, <<"v">> >> >>,
    <<"v", << <<"*">>, <<"u">>, <<"v">> >> >>,
    <<"w", << <<"w">>, <<"u", "u">>, <<"v", "v">> >> >>,
    <<"x", << <<"*">>, <<"x">> >> >>,
    <<"y", << <<"y">> >> >>,
    <<"z", << <<"*">>, <<"2">>, <<"z">> >> >>,
    <<"A", << <<"4">>, <<"@">>, <<"A">> >> >>,
    <<"B", << <<"6">>, <<"8">>, <<"B">> >> >>,
    <<"C", << <<"(">>, <<"C">> >> >>,
    <<"D", << <<"D">> >> >>,
    <<"E", << <<"3">>, <<"E">> >> >>,
    <<"F", << <<"F">> >> >>,
    <<"G", << <<"9">>, <<"G">> >> >>,
    <<"H", << <<"H">> >> >>,
    <<"I", << <<"!">>, <<"1">>, <<"I">>, <<"i">>, <<"l">> >> >>,
    <<"J", << <<"J">> >> >>,
    <<"K", << <<"K">> >> >>,
    <<"L", << <<"1">>, <<"I">>, <<"L">>, <<"i">> >> >>,
    <<"M", << <<"M">> >> >>,
    <<"N", << <<"N">> >> >>,
    <<"O", << <<"0">>, <<"O">>, <<"(", ")">> >> >>,
    <<"P", << <<"P">> >> >>,
    <<"Q", << <<"Q">> >> >>,
    <<"R", << <<"R">> >> >>,
    <<"S", << <<"$">>, <<"5">>, <<"S">> >> >>,
    <<"T", << <<"7">>, <<"T">> >> >>,
    <<"U", << <<"U">>, <<"V">> >> >>,
    <<"V", << <<"U">>, <<"V">> >> >>,
    <<"W", << <<"W">>, <<"U", "U">>, <<"V", "V">> >> >>,
    <<"X", << <<"X">> >> >>,
    <<"Y", << <<"Y">> >> >>,
    <<"Z", << <<"Z">> >> >>,
    <<"0", << <<"*">>, <<"0">>, <<"O">>, <<"o">>, <<"(", ")">> >> >>,
    <<"1", << <<"!">>, <<"*">>, <<"1">>, <<"I">>, <<"i">> >> >>,
    <<"2", << <<"*">>, <<"2">>, <<"Z">>, <<"z">> >> >>,
    <<"3", << <<"*">>, <<"3">>, <<"E">>, <<"e">> >> >>,
    <<"4", << <<"*">>, <<"4">>, <<"@">>, <<"A">>, <<"a">>, <<"h">> >> >>,
    <<"5", << <<"*">>, <<"5">>, <<"S">>, <<"s">> >> >>,
    <<"6", << <<"*">>, <<"6">>, <<"8">>, <<"B">>, <<"b">> >> >>,
    <<"7", << <<"*">>, <<"7">>, <<"T">>, <<"t">> >> >>,
    <<"8", << <<"*">>, <<"6">>, <<"8">>, <<"B">>, <<"b">> >> >>,
    <<"9", << <<"9">>, <<"G">>, <<"g">> >> >>
  >>

\* The set {v, v.lower(), v.upper()} of lines 111 and 141.
Forms(v) == {v, lower(v), upper(v)}

\* The forms registered under the i-th key of COMBINED_SUBSTITUTIONS.
VariantForms(i) ==
  UNION {Forms(COMBINED_SUBSTITUTIONS[i][2][j]) :
           j \in DOMAIN COMBINED_SUBSTITUTIONS[i][2]}

AllForms == UNION {VariantForms(i) : i \in DOMAIN COMBINED_SUBSTITUTIONS}

\* REVERSE_SUBSTITUTIONS: each form of each variant maps to the set of the
\* lowercased bases it is registered under.
REVERSE_SUBSTITUTIONS ==
  [form \in AllForms |->
     {Lower(COMBINED_SUBSTITUTIONS[i][1]) :
        i \in {k \in DOMAIN COMBINED_SUBSTITUTIONS : form \in VariantForms(k)}}]

\* What lines 139-143 meet for one key: its variants in order, and for each
\* variant the set of line 141 with the base.  A Python set of strings is
\* iterated in an order that changes from one run to the next, so the forms
\* of one variant are kept as a set: <<forms, base>>.
RECURSIVE VariantPairs(_, _)
VariantPairs(variants, base) ==
  IF variants = <<>> THEN <<>>
  ELSE << <<Forms(Head(variants)), base>> >>
         \o VariantPairs(Tail(variants), base)

\* The groups of the keys lo..hi of table, in table order.
RECURSIVE TablePairs(_, _, _)
TablePairs(table, lo, hi) ==
  IF lo > hi THEN <<>>
  ELSE IF lo = hi THEN VariantPairs(table[lo][2], Lower(table[lo][1]))
       ELSE LET mid == (lo + hi) \div 2
            IN  TablePairs(table, lo, mid) \o TablePairs(table, mid + 1, hi)

\* `if form not in norm_map`: a form an earlier group holds is dropped; a
\* group left without forms inserts nothing.
FirstWins(pairs) ==
  LET Earlier(p) == UNION { pairs[q][1] : q \in 1..(p - 1) }
      fresh == [p \in 1..Len(pairs) |->
                  <<pairs[p][1] \ Earlier(p), pairs[p][2]>>]
      NotEmpty(x) == x[1] # {}
  IN  SelectSeq(fresh, NotEmpty)

\* build_normalization_map: the dict as its items in insertion order, the
\* items one variant inserted together as one group <<forms, base>>; each
\* form maps to the lowercased base of the first key, in table order, that
\* registers it.
build_normalization_map(substitutions) ==
  FirstWins(TablePairs(substitutions, 1, Len(substitutions)))

NORMALIZATION_MAP == build_normalization_map(COMBINED_SUBSTITUTIONS)

\* HOMOGLYPHS: no key of the table is a character of Alphabet.
HOMOGLYPHS == <<>>

\* HIDDEN_SEPARATORS: the code points of the list that are characters of
\* Alphabet, U+200B and U+2028, in list order.
HIDDEN_SEPARATORS == << "ZWSP", "LSEP" >>

COMMON_SAFE_WORDS ==
  { <<"a", "s", "s", "i", "n", "g", "t", "o", "n">>,
    <<"b", "a", "s", "s", "i", "s", "t">>,
    <<"b", "e", "a", "v", "e", "r">>,
    <<"b", "i", "t", "c", "h", "f", "i", "e", "l", "d">>,
    <<"b", "u", "t", "t", "e", "r", "f", "l", "y">>,
    <<"c", "l", "a", "s", "s", "i", "c">>,
    <<"c", "l", "i", "t", "h", "e", "r", "o", "e">>,
    <<"c", "l", "u", "s", "t", "e", "r">>,
    <<"c", "o", "c", "k", "b", "r", "i", "d", "g", "e">>,
    <<"c", "o", "c", "k", "b", "u", "r", "n">>,
    <<"c", "o", "c", "k", "e", "r", "m", "o", "u", "t", "h">>,
    <<"c", "o", "c", "k", "t", "a", "i", "l">>,
    <<"c", "o", "u", "n", "t", "i", "n", "g">>,
    <<"c", "u", "m", "m", "i", "n", "g">>, <<"f", "a", "n", "n", "y">>,
    <<"f", "a", "s", "c", "i", "a", "l">>,
    <<"g", "l", "a", "s", "s", "w", "a", "r", "e">>,
    <<"g", "r", "a", "s", "s", "l", "a", "n", "d">>,
    <<"h", "e", "l", "l", "o">>,
    <<"l", "a", "n", "g", "u", "a", "g", "e">>,
    <<"l", "i", "g", "h", "t", "w", "a", "t", "e", "r">>,
    <<"m", "a", "s", "t", "e", "c", "t", "o", "m", "y">>,
    <<"m", "i", "a", "n", "u", "s">>,
    <<"m", "o", "l", "e", "c", "u", "l", "a", "r">>,
    <<"n", "u", "c", "l", "e", "u", "s">>,
    <<"p", "a", "s", "c", "a", "l">>,
    <<"p", "a", "s", "s", "a", "g", "e">>,
    <<"p", "e", "n", "i", "s", "t", "o", "n", "e">>,
    <<"p", "r", "i", "c", "k", "w", "i", "l", "l", "o", "w">>,
    <<"r", "a", "p", "e">>, <<"s", "c", "r", "o", "t", "u", "m">>,
    <<"s", "h", "i", "p", "m", "e", "n", "t">>,
    <<"s", "h", "i", "t", "t", "e", "r", "t", "o", "n">>,
    <<"s", "h", "o", "o", "t", "i", "n", "g">>,
    <<"t", "a", "t", "s", "u", "k", "i">>,
    <<"t", "e", "s", "t", "e", "s">>,
    <<"t", "i", "t", "c", "o", "m", "b">>, <<"t", "w", "a", "t", "t">>,
    <<"u", "r", "e", "t", "h", "r", "a">>,
    <<"v", "a", "g", "i", "n", "a", "l">>,
    <<"v", "a", "s", "c", "u", "l", "a", "r">>,
    <<"v", "a", "s", "e", "c", "t", "o", "m", "y">>,
    <<"w", "h", "a", "l", "e">> }

SHORT_SWEARS ==
  { <<"5", "h", "t">>, <<"a", "s", "s">>, <<"b", "c", "h">>,
    <<"c", "n", "t">>, <<"d", "c", "k">>, <<"d", "m", "n">>,
    <<"f", "4", "n">>, <<"f", "c", "k">>, <<"f", "f", "s">>,
    <<"f", "g", "s">>, <<"f", "k">>, <<"f", "k", "u">>, <<"f", "u", "c">>,
    <<"f", "u", "k">>, <<"f", "x">>, <<"k", "3", "k">>, <<"n", "1", "g">>,
    <<"n", "g", "r">>, <<"p", "r", "k">>, <<"p", "r", "n">>,
    <<"s", "h", "1">>, <<"s", "h", "t">>, <<"t", "w", "t">>,
    <<"v", "g", "n">>, <<"w", "t", "f">>, <<"w", "t", "h">> }

(***************************************************************************)
(* Text preprocessing (src/swear_filter.py, lines 114-133).                *)
(***************************************************************************)
\* unicodedata.normalize("NFKC", text): every character of Alphabet is its
\* own NFKC form, and no two of them compose.
NFKC(text) == text

\* normalize_homoglyphs: HOMOGLYPHS.get(c, c) for every character.
normalize_homoglyphs(text) ==
  [i \in 1..Len(text) |->
     IF text[i] \in DOMAIN HOMOGLYPHS THEN HOMOGLYPHS[text[i]] ELSE text[i]]

\* The length of the run of equal characters that starts the non-empty s.
RECURSIVE RunLength(_)
RunLength(s) ==
  IF Len(s) >= 2 /\ s[2] = s[1] THEN 1 + RunLength(Tail(s)) ELSE 1

\* squash_repeats: re.sub(r'(.)\1{threshold-1,}', r'\1', text).  A run of
\* at least threshold equal characters becomes one character.
RECURSIVE squash_repeats(_, _)
squash_repeats(text, threshold) ==
  IF text = <<>> THEN <<>>
  ELSE LET n == RunLength(text)
       IN  IF n >= threshold
           THEN <<Head(text)>>
                  \o squash_repeats(SubSeq(text, n + 1, Len(text)), threshold)
           ELSE <<Head(text)>> \o squash_repeats(Tail(text), threshold)

\* The offset of the first non-whitespace character of s at or after i.
RECURSIVE SkipSpace(_, _)
SkipSpace(s, i) ==
  IF i < Len(s) /\ s[i + 1] \in Whitespace THEN SkipSpace(s, i + 1) ELSE i

\* The offset after one unit [a-z]\s+ that starts at offset i, or -1.
UnitEnd(s, i) ==
  IF /\ i + 2 <= Len(s)
     /\ s[i + 1] \in AsciiLetters
     /\ s[i + 2] \in Whitespace
  THEN SkipSpace(s, i + 2)
  ELSE -1

\* The end of the match of (?:[a-z]\s+){2,}[a-z]\b whose next unit starts at
\* offset p after k units, or -1: as many units as possible (the group is
\* greedy), giving one back when the closing [a-z]\b fails.
RECURSIVE SpacedEnd(_, _, _)
SpacedEnd(s, p, k) ==
  LET u    == UnitEnd(s, p)
      more == IF u = -1 THEN -1 ELSE SpacedEnd(s, u, k + 1)
  IN  IF more # -1 THEN more
      ELSE IF /\ k >= 2
              /\ p < Len(s)
              /\ s[p + 1] \in AsciiLetters
              /\ WordBoundary(s, p + 1)
           THEN p + 1
           ELSE -1

RECURSIVE CollapseFrom(_, _)
CollapseFrom(s, i) ==
  IF i >= Len(s) THEN <<>>
  ELSE LET e == IF WordBoundary(s, i) THEN SpacedEnd(s, i, 0) ELSE -1
       IN  IF e # -1
           THEN FilterChars(SubSeq(s, i + 1, e), Alphabet \ {" "})
                  \o CollapseFrom(s, e)
           ELSE <<s[i + 1]>> \o CollapseFrom(s, i + 1)

\* collapse_spaced_letters: in every match of
\* (?i)\b(?:[a-z]\s+){2,}[a-z]\b the spaces are removed (str.replace(' ', '')).
collapse_spaced_letters(text) == CollapseFrom(text, 0)

\* strip_nonalpha_punct: re.sub(r'[^a-zA-Z0-9\s]', '', text).
strip_nonalpha_punct(text) == FilterChars(text, AsciiAlnum \cup Whitespace)

\* preprocess_text_for_filtering.
preprocess_text_for_filtering(text) ==
  LET t1 == NFKC(text)
      t2 == normalize_homoglyphs(t1)
      t3 == squash_repeats(t2, 2)
      t4 == collapse_spaced_letters(t3)
      t5 == strip_nonalpha_punct(t4)
  IN  strip(lower(t5))

(***************************************************************************)
(* Tokenizers: the two re.findall calls of contains_swear_word.            *)
(***************************************************************************)
\* The offset of the first whitespace character of s at or after i.
RECURSIVE SkipNonSpace(_, _)
SkipNonSpace(s, i) ==
  IF i < Len(s) /\ s[i + 1] \notin Whitespace THEN SkipNonSpace(s, i + 1) ELSE i

\* re.findall(r'\S+', s) from offset i on.
RECURSIVE RawTokensFrom(_, _)
RawTokensFrom(s, i) ==
  IF i >= Len(s) THEN <<>>
  ELSE IF s[i + 1] \in Whitespace THEN RawTokensFrom(s, i + 1)
       ELSE LET e == SkipNonSpace(s, i)
            IN  <<SubSeq(s, i + 1, e)>> \o RawTokensFrom(s, e)

\* re.findall(r'\S+', message), line 556.
words_raw(message) == RawTokensFrom(message, 0)

\* The offset after the run of [\w'] characters of s that starts at offset i.
RECURSIVE SkipWordish(_, _)
SkipWordish(s, i) ==
  IF i < Len(s) /\ s[i + 1] \in (WordChars \cup {"'"})
  THEN SkipWordish(s, i + 1)
  ELSE i

\* The end of the match of \b[\w']+\b at offset i, or -1: the longest run
\* of [\w'] that starts at a word boundary and ends at one.
WordMatchEnd(s, i) ==
  LET ends == {j \in (i + 1)..SkipWordish(s, i) : WordBoundary(s, j)}
  IN  IF WordBoundary(s, i) /\ ends # {}
      THEN CHOOSE j \in ends : \A k \in ends : k <= j
      ELSE -1

\* re.findall(r"\b[\w']+\b", s) from offset i on.
RECURSIVE WordTokensFrom(_, _)
WordTokensFrom(s, i) ==
  IF i >= Len(s) THEN <<>>
  ELSE LET e == WordMatchEnd(s, i)
       IN  IF e # -1
           THEN <<SubSeq(s, i + 1, e)>> \o WordTokensFrom(s, e)
           ELSE WordTokensFrom(s, i + 1)

\* re.findall(r'\b[\w\']+\b', normalized), line 565.
words_in_message(normalized) == WordTokensFrom(normalized, 0)

(***************************************************************************)
(* Variant expansion (src/swear_filter.py, lines 148-159).                 *)
(***************************************************************************)
\* Line 151-152: the bases of one character, sorted by (length, text); a
\* character with no entry stands for itself.
Possibilities(char) ==
  IF <<char>> \in DOMAIN REVERSE_SUBSTITUTIONS
  THEN SortedChars(REVERSE_SUBSTITUTIONS[<<char>>])
  ELSE <<char>>

\* Every sequence of combos with c put in front.
Prefixed(c, combos) == [i \in 1..Len(combos) |-> <<c>> \o combos[i]]

RECURSIVE ConcatPrefixed(_, _)
ConcatPrefixed(options, combos) ==
  IF options = <<>> THEN <<>>
  ELSE Prefixed(Head(options), combos) \o ConcatPrefixed(Tail(options), combos)

\* itertools.product(*possibilities), joined: the combinations in the order
\* product yields them (the last position varies fastest).
RECURSIVE Product(_)
Product(word) ==
  IF word = <<>> THEN << <<>> >>
  ELSE ConcatPrefixed(Possibilities(Head(word)), Product(Tail(word)))

\* expand_all_normalizations without the break of lines 157-158.
expand_all_normalizations_uncapped(word, max_variants) ==
  LET combos == Product(word)
  IN  {combos[i] : i \in 1..Len(combos)}

\* expand_all_normalizations: the combinations are added one by one and the
\* loop breaks once max_variants of them are in the set.
expand_all_normalizations(word, max_variants) ==
  LET combos == Product(word)
  IN  {combos[i] : i \in 1..Min(Len(combos), Max(max_variants, 1))}

\* The default of the max_variants parameter, line 148.
DefaultMaxVariants == 50000

(***************************************************************************)
(* The phonetic key (src/swear_filter.py, lines 167-175 and 250-292).      *)
(***************************************************************************)
\* The length of the forms of a group: lower() and upper() keep the length.
FormLength(x) == Len(CHOOSE form \in x[1] : TRUE)

\* The length of the longest form among pairs.
MaxFormLength(pairs) ==
  LET lens == {FormLength(pairs[p]) : p \in DOMAIN pairs}
  IN  IF lens = {} THEN 0 ELSE CHOOSE n \in lens : \A m \in lens : m <= n

\* sorted(items, key=lambda x: -len(x[0])): longest forms first; the sort
\* is stable, so the items of a group stay together.  n is the longest
\* length still to place.
RECURSIVE LongestFirst(_, _)
LongestFirst(pairs, n) ==
  IF n = 0 THEN <<>>
  ELSE LET HasLength(x) == FormLength(x) = n
       IN  SelectSeq(pairs, HasLength) \o LongestFirst(pairs, n - 1)

sorted_variants ==
  LongestFirst(NORMALIZATION_MAP, MaxFormLength(NORMALIZATION_MAP))

\* Line 171 for each item of one group: one re.sub per form.  The forms
\* differ by case only and the flag is re.IGNORECASE, so each of them is the
\* same substitution and the order they come in does not show.
RECURSIVE SubstituteForms(_, _, _)
SubstituteForms(text, forms, base) ==
  IF forms = {} THEN text
  ELSE LET form == CHOOSE f \in forms : TRUE
       IN  CHOOSE r \in {SubstituteForms(t, forms \ {form}, base) :
                           t \in {ReplaceLit(text, form, <<base>>, TRUE)}} : TRUE

\* The substitutions of the groups lo..hi of pairs applied to text one after
\* the other (each intermediate text is computed before the next
\* substitution reads it).
RECURSIVE SubstituteAll(_, _, _, _)
SubstituteAll(text, pairs, lo, hi) ==
  IF lo > hi THEN text
  ELSE IF lo = hi
       THEN SubstituteForms(text, pairs[lo][1], pairs[lo][2])
       ELSE LET mid == (lo + hi) \div 2
            IN  CHOOSE r \in {SubstituteAll(t, pairs, mid + 1, hi) :
                                t \in {SubstituteAll(text, pairs, lo, mid)}} : TRUE

\* normalize_to_base: one re.sub(re.escape(variant), base, text,
\* flags=re.IGNORECASE) per item, longest variants first.
normalize_to_base(text) ==
  SubstituteAll(text, sorted_variants, 1, Len(sorted_variants))

Vowels == {"a", "e", "i", "o", "u"}

SoftFollowers == {"e", "i", "y"}

\* re.sub(r'([aeiou])h', r'\1', s).
RECURSIVE DropHAfterVowel(_)
DropHAfterVowel(s) ==
  IF s = <<>> THEN <<>>
  ELSE IF Len(s) >= 2 /\ s[1] \in Vowels /\ s[2] = "h"
       THEN <<s[1]>> \o DropHAfterVowel(SubSeq(s, 3, Len(s)))
       ELSE <<s[1]>> \o DropHAfterVowel(Tail(s))

\* re.sub(r'gh(?=[iey])', '', s).
RECURSIVE DropSilentGh(_)
DropSilentGh(s) ==
  IF s = <<>> THEN <<>>
  ELSE IF Len(s) >= 3 /\ s[1] = "g" /\ s[2] = "h" /\ s[3] \in SoftFollowers
       THEN DropSilentGh(SubSeq(s, 3, Len(s)))
       ELSE <<s[1]>> \o DropSilentGh(Tail(s))

\* re.sub(r'c(?!e|i|y)', 'k', s).
HardC(s) ==
  [i \in 1..Len(s) |->
     IF s[i] = "c" /\ ~(i < Len(s) /\ s[i + 1] \in SoftFollowers)
     THEN "k" ELSE s[i]]

\* re.sub(r'(\w)\1+', r'\1', s).
RECURSIVE DropDuplicates(_)
DropDuplicates(s) ==
  IF s = <<>> THEN <<>>
  ELSE IF s[1] \in WordChars
       THEN <<s[1]>> \o DropDuplicates(SubSeq(s, RunLength(s) + 1, Len(s)))
       ELSE <<s[1]>> \o DropDuplicates(Tail(s))

\* re.sub('^' + lit, repl, s).
ReplacePrefix(s, lit, repl) ==
  IF MatchAt(s, 0, lit, FALSE) THEN repl \o SubSeq(s, Len(lit) + 1, Len(s)) ELSE s

\* re.sub(lit + '$', repl, s).
ReplaceSuffix(s, lit, repl) ==
  IF Len(s) >= Len(lit) /\ MatchAt(s, Len(s) - Len(lit), lit, FALSE)
  THEN SubSeq(s, 1, Len(s) - Len(lit)) \o repl
  ELSE s

\* re.sub('([^x]|^)' + lit + '(?=[followers])', r'\1' + repl, s) from
\* offset p on, x being the character notPrev; followers = {} stands for no
\* lookahead.  The first alternative takes the character before lit with it.
RECURSIVE GuardedFrom(_, _, _, _, _, _)
GuardedFrom(s, p, notPrev, lit, followers, repl) ==
  LET ahead(q) == followers = {} \/ (q < Len(s) /\ s[q + 1] \in followers)
  IN  IF p >= Len(s) THEN <<>>
      ELSE IF /\ s[p + 1] # notPrev
              /\ MatchAt(s, p + 1, lit, FALSE)
              /\ ahead(p + 1 + Len(lit))
           THEN <<s[p + 1]>> \o repl
                  \o GuardedFrom(s, p + 1 + Len(lit), notPrev, lit, followers, repl)
           ELSE IF p = 0 /\ MatchAt(s, 0, lit, FALSE) /\ ahead(Len(lit))
                THEN repl \o GuardedFrom(s, Len(lit), notPrev, lit, followers, repl)
                ELSE <<s[p + 1]>>
                       \o GuardedFrom(s, p + 1, notPrev, lit, followers, repl)

\* The default of the max_length parameter, line 250.
MetaphoneMaxLength == 8

\* Lines 286-290: the letters between the first and the last are sorted.
SortMiddle(s) ==
  IF Len(s) >= 4
  THEN <<s[1]>> \o SortString(SubSeq(s, 2, Len(s) - 1)) \o <<s[Len(s)]>>
  ELSE s

\* The list `replacements` of lines 259-280, one record per (pattern, repl).
replacements ==
  << [kind |-> "letters"],                                     \* [^a-z] -> ''
     [kind |-> "vowel_h"],                                     \* ([aeiou])h -> \1
     [kind |-> "silent_gh"],                                   \* gh(?=[iey]) -> ''
     [kind |-> "lit", lit |-> <<"c", "k">>, repl |-> <<"k">>],
     [kind |-> "hard_c"],                                      \* c(?!e|i|y) -> k
     [kind |-> "lit", lit |-> <<"p", "h">>, repl |-> <<"f">>],
     [kind |-> "lit", lit |-> <<"q", "u">>, repl |-> <<"k", "w">>],
     [kind |-> "lit", lit |-> <<"x">>, repl |-> <<"k", "s">>],
     [kind |-> "duplicates"],                                  \* (\w)\1+ -> \1
     [kind |-> "lit", lit |-> <<"s", "c", "h">>, repl |-> <<"s", "k">>],
     [kind |-> "lit", lit |-> <<"t", "h">>, repl |-> <<"t">>],
     [kind |-> "prefix", lit |-> <<"k", "n">>, repl |-> <<"n">>],
     [kind |-> "prefix", lit |-> <<"g", "n">>, repl |-> <<"n">>],
     [kind |-> "prefix", lit |-> <<"p", "n">>, repl |-> <<"n">>],
     [kind |-> "prefix", lit |-> <<"w", "r">>, repl |-> <<"r">>],
     [kind |-> "suffix", lit |-> <<"m", "b">>, repl |-> <<"m">>],
     [kind |-> "guarded", notPrev |-> "s", lit |-> <<"c">>,
      followers |-> SoftFollowers, repl |-> <<"s">>],          \* ([^s]|^)c(?=[iey])
     [kind |-> "guarded", notPrev |-> "f", lit |-> <<"g", "h">>,
      followers |-> {}, repl |-> <<"g">>],                     \* ([^f]|^)gh
     [kind |-> "guarded", notPrev |-> "t", lit |-> <<"c", "h">>,
      followers |-> {}, repl |-> <<"k">>] >>                   \* ([^t]|^)ch

\* s = re.sub(pattern, repl, s) for one entry of replacements.
ApplyReplacement(s, r) ==
  CASE r.kind = "letters"    -> FilterChars(s, LowerLetters)
    [] r.kind = "vowel_h"    -> DropHAfterVowel(s)
    [] r.kind = "silent_gh"  -> DropSilentGh(s)
    [] r.kind = "hard_c"     -> HardC(s)
    [] r.kind = "duplicates" -> DropDuplicates(s)
    [] r.kind = "lit"        -> ReplaceLit(s, r.lit, r.repl, FALSE)
    [] r.kind = "prefix"     -> ReplacePrefix(s, r.lit, r.repl)
    [] r.kind = "suffix"     -> ReplaceSuffix(s, r.lit, r.repl)
    [] r.kind = "guarded"    -> GuardedFrom(s, 0, r.notPrev, r.lit, r.followers, r.repl)

\* The loop of lines 282-283 from entry i on.
RECURSIVE ApplyReplacements(_, _)
ApplyReplacements(s, i) ==
  IF i > Len(replacements) THEN s
  ELSE CHOOSE r \in {ApplyReplacements(t, i + 1) :
                       t \in {ApplyReplacement(s, replacements[i])}} : TRUE

\* simple_metaphone(s, max_length).  The slice s[:max_length] of line 292
\* keeps max_length characters, and with a negative max_length all but the
\* last -max_length.
simple_metaphone(s, max_length) ==
  IF s = <<>> THEN <<>>
  ELSE CHOOSE r \in
         {SubSeq(SortMiddle(t), 1,
                 IF max_length < 0 THEN Max(Len(t) + max_length, 0)
                 ELSE Min(Len(t), max_length)) :
            t \in {ApplyReplacements(s0, 1) : s0 \in {normalize_to_base(lower(s))}}} :
         TRUE

(***************************************************************************)
(* The context whitelist (src/swear_filter.py, lines 182-216, 499-513).    *)
(***************************************************************************)
\* Each pattern is  \b? (first) \s*? (second) \b?  : lb and rb say whether
\* the pattern opens and closes with \b, ws whether \s* stands between the
\* two groups, and a group is the set of its alternatives.
CONTEXT_WHITELIST ==
    <<"c", "u", "n", "t">> :> [timeout |-> 1, patterns |-> <<
      [lb |-> TRUE, first |-> {<<"c", "u", "n", "t">>},
       ws |-> FALSE, second |-> {<<"r", "y">>, <<"r", "i", "e", "s">>, <<"i", "n", "g">>, <<"e", "d">>, <<"i", "o", "u", "s">>, <<"u", "r", "e">>, <<"s", "h", "i", "p">>},
       rb |-> TRUE],
      [lb |-> TRUE, first |-> {<<"d", "i", "s">>, <<"r", "e">>},
       ws |-> FALSE, second |-> {<<"c", "u", "n", "t">>},
       rb |-> TRUE],
      [lb |-> TRUE, first |-> {<<"c", "o", "u", "n", "t">>},
       ws |-> FALSE, second |-> {<<>>},
       rb |-> TRUE],
      [lb |-> TRUE, first |-> {<<"a", "c", "c", "o", "u", "n", "t">>},
       ws |-> FALSE, second |-> {<<>>},
       rb |-> TRUE] >>] @@
    <<"a", "s", "s">> :> [timeout |-> 1, patterns |-> <<
      [lb |-> TRUE, first |-> {<<"a", "s", "s">>},
       ws |-> TRUE, second |-> {<<"i", "g", "n", "m", "e", "n", "t">>, <<"e", "s", "s", "m", "e", "n", "t">>, <<"o", "c", "i", "a", "t", "i", "o", "n">>, <<"e", "m", "b", "l", "y">>, <<"e", "t", "s">>, <<"i", "s", "t">>, <<"u", "m", "i", "n", "g">>, <<"e", "r", "t">>},
       rb |-> FALSE],
      [lb |-> TRUE, first |-> {<<"c", "l">>, <<"g", "r">>, <<"m">>, <<"p">>},
       ws |-> FALSE, second |-> {<<"a", "s", "s">>},
       rb |-> TRUE],
      [lb |-> TRUE, first |-> {<<"e", "m", "b", "r">>, <<"h", "a", "r", "r">>},
       ws |-> FALSE, second |-> {<<"a", "s", "s">>},
       rb |-> FALSE] >>] @@
    <<"c", "o", "c", "k">> :> [timeout |-> 1, patterns |-> <<
      [lb |-> TRUE, first |-> {<<"c", "o", "c", "k">>},
       ws |-> FALSE, second |-> {<<"t", "a", "i", "l">>, <<"a", "t", "o", "o">>, <<"p", "i", "t">>, <<"r", "o", "a", "c", "h">>},
       rb |-> FALSE],
      [lb |-> TRUE, first |-> {<<"p", "e", "a">>},
       ws |-> FALSE, second |-> {<<"c", "o", "c", "k">>},
       rb |-> TRUE],
      [lb |-> TRUE, first |-> {<<"h", "a", "n", "c", "o", "c", "k">>},
       ws |-> FALSE, second |-> {<<>>},
       rb |-> TRUE],
      [lb |-> TRUE, first |-> {<<"s", "h", "u", "t", "t", "l", "e">>},
       ws |-> FALSE, second |-> {<<"c", "o", "c", "k">>},
       rb |-> TRUE] >>] @@
    <<"h", "e", "l", "l">> :> [timeout |-> 1, patterns |-> <<
      [lb |-> TRUE, first |-> {<<"h", "e", "l", "l">>},
       ws |-> FALSE, second |-> {<<"o">>, <<"i", "c", "o", "p", "t", "e", "r">>, <<"m", "e", "t">>, <<"i", "u", "m">>, <<"e", "n", "i", "c">>},
       rb |-> FALSE],
      [lb |-> TRUE, first |-> {<<"s", "h", "e", "l", "l">>},
       ws |-> FALSE, second |-> {<<>>},
       rb |-> TRUE],
      [lb |-> TRUE, first |-> {<<"o", "t", "h", "e", "l", "l", "o">>},
       ws |-> FALSE, second |-> {<<>>},
       rb |-> TRUE] >>]

\* re.search(pattern, message, re.IGNORECASE) for one pattern.
PatternFound(pattern, message) ==
  \E i \in 0..Len(message) :
    \E a \in pattern.first :
      \E k \in 0..(IF pattern.ws THEN Len(message) ELSE 0) :
        \E b \in pattern.second :
          LET j == i + Len(a) + k
              e == j + Len(b)
          IN  /\ e <= Len(message)
              /\ pattern.lb => WordBoundary(message, i)
              /\ MatchAt(message, i, a, TRUE)
              /\ \A x \in (i + Len(a) + 1)..j : message[x] \in Whitespace
              /\ MatchAt(message, j, b, TRUE)
              /\ pattern.rb => WordBoundary(message, e)

\* _check_context (the second definition, lines 499-513, which replaces the
\* one of lines 436-437).  The wall-clock cut-off of lines 510-511 is never
\* taken: a scan of a message of the lengths modelled is far shorter than
\* the timeout.
_check_context(message, word) ==
  IF word \notin DOMAIN CONTEXT_WHITELIST THEN FALSE
  ELSE LET rules == CONTEXT_WHITELIST[word]
       IN  \E n \in DOMAIN rules.patterns : PatternFound(rules.patterns[n], message)


\* remove_hidden_chars, lines 161-165: every occurrence of every code point
\* of HIDDEN_SEPARATORS is deleted.  preprocess_text_for_filtering does not
\* call it.
remove_hidden_chars(text) ==
  FilterChars(text,
    Alphabet \ { HIDDEN_SEPARATORS[j] : j \in DOMAIN HIDDEN_SEPARATORS })

\* ---------------------------------------------------------------------------
\* contains_swear_word: the matching stages (lines 551-609)
\* ---------------------------------------------------------------------------

\* Line 551 without its second test: only the empty message is answered at once.
NothingToCheck_message_only(message, banned) == message = <<>>

\* Line 551: the empty message, or a filter without banned terms.
NothingToCheck(message, banned) == message = <<>> \/ banned = {}

\* Lines 556-561: some whitespace-separated token of the raw message has an
\* expansion that is a banned term.
RawTokenMatch(message, banned) ==
  LET tokens == words_raw(message)
  IN  \E i \in DOMAIN tokens :
        expand_all_normalizations(tokens[i], DefaultMaxVariants) \cap banned # {}

\* Lines 568-571 with a veto that never fires.
SafeWordBypass_never(words, banned, safe) == FALSE

\* Lines 568-571: some token of the normalised message is a safe word and is
\* not a banned term.
SafeWordBypass(words, banned, safe) ==
  \E i \in DOMAIN words : words[i] \in safe /\ words[i] \notin banned

\* Lines 574-578 without the whitelist lookup of line 576.
DirectMatch_unconditional(message, words, banned) ==
  \E i \in DOMAIN words : words[i] \in banned

\* Lines 574-578: some token is a banned term and the context whitelist does
\* not clear it.
DirectMatch(message, words, banned) ==
  \E i \in DOMAIN words : words[i] \in banned /\ ~_check_context(message, words[i])

\* Lines 581-591: a window of a token expands to a banned term of at least
\* three characters, at most three characters follow the window, and the
\* whitelist lookup of line 589, made with the token, does not clear it.
RootSuffixMatch(message, words, banned) ==
  \E n \in DOMAIN words :
    \E swear \in banned :
      /\ Len(swear) >= 3
      /\ \E i \in 0..(Len(words[n]) - Len(swear)) :
           LET segment    == Slice(words[n], i, i + Len(swear))
               suffix_len == Len(words[n]) - (i + Len(swear))
           IN  /\ swear \in expand_all_normalizations(segment, DefaultMaxVariants)
               /\ suffix_len <= 3
               /\ ~_check_context(message, words[n])

\* _check_short_swears, lines 532-538: the text, or the text without the
\* characters of [1378245609@#$+*], is at most three characters long and in
\* SHORT_SWEARS.  No caller exists in src/.
_check_short_swears(text) ==
  LET stripped == FilterChars(lower(text),
                    Alphabet \ { "0", "1", "2", "3", "4", "5", "6", "7", "8",
                                 "9", "@", "$", "*" })
  IN  \/ Len(text) <= 3 /\ lower(text) \in SHORT_SWEARS
      \/ Len(stripped) <= 3 /\ stripped \in SHORT_SWEARS

\* Lines 594-596: the message is one token of at most three characters that
\* is in SHORT_SWEARS.
ShortFormMatch(words) ==
  /\ Len(words) = 1
  /\ Len(words[1]) <= 3
  /\ words[1] \in SHORT_SWEARS

\* Lines 601-606: the phonetic key of a banned term occurs in the phonetic key
\* of the normalised message and the whitelist does not clear that term.
PhoneticMatch(message, normalized, banned) ==
  LET phonetic == simple_metaphone(normalized, MetaphoneMaxLength)
  IN  \E swear \in banned :
        /\ IsSubstring(simple_metaphone(swear, MetaphoneMaxLength), phonetic)
        /\ ~_check_context(message, swear)

\* Lines 564-609: the stages that work on the normalised message, in order.
NormalizedStages(message, normalized, words, banned, safe) ==
  IF SafeWordBypass(words, banned, safe)
    THEN [verdict |-> FALSE, stage |-> "safe_word"]
  ELSE IF DirectMatch(message, words, banned)
    THEN [verdict |-> TRUE, stage |-> "direct"]
  ELSE IF RootSuffixMatch(message, words, banned)
    THEN [verdict |-> TRUE, stage |-> "root_suffix"]
  ELSE IF ShortFormMatch(words)
    THEN [verdict |-> TRUE, stage |-> "short_form"]
  ELSE IF PhoneticMatch(message, normalized, banned)
    THEN [verdict |-> TRUE, stage |-> "phonetic"]
  ELSE [verdict |-> FALSE, stage |-> "default"]

\* Lines 551-609 with the safe-word veto placed before the raw-token stage.
Stages_veto_first(message, banned, safe) ==
  IF NothingToCheck(message, banned)
    THEN [verdict |-> FALSE, stage |-> "nothing_to_check"]
  ELSE CHOOSE r \in
         {IF SafeWordBypass(words_in_message(normalized), banned, safe)
            THEN [verdict |-> FALSE, stage |-> "safe_word"]
          ELSE IF RawTokenMatch(message, banned)
            THEN [verdict |-> TRUE, stage |-> "raw_token"]
          ELSE NormalizedStages(message, normalized,
                                words_in_message(normalized), banned, safe) :
            normalized \in {preprocess_text_for_filtering(message)}} : TRUE

\* Lines 551-609: the verdict the stages reach for a message that was not
\* answered from the cache, with the stage that decided it.
Stages(message, banned, safe) ==
  IF NothingToCheck(message, banned)
    THEN [verdict |-> FALSE, stage |-> "nothing_to_check"]
  ELSE IF RawTokenMatch(message, banned)
    THEN [verdict |-> TRUE, stage |-> "raw_token"]
  ELSE CHOOSE r \in
         {NormalizedStages(message, normalized, words_in_message(normalized),
                           banned, safe) :
            normalized \in {preprocess_text_for_filtering(message)}} : TRUE


\* ---------------------------------------------------------------------------
\* load_safe_words and the constructor
\* ---------------------------------------------------------------------------

\* The file "english-words.60": absent, or present with these lines.
NoFile == [exists |-> FALSE, lines |-> <<>>]

FileOf(lines) == [exists |-> TRUE, lines |-> lines]

\* Lines 318-344.
load_safe_words(banned, file) ==
  IF ~file.exists THEN COMMON_SAFE_WORDS
  ELSE COMMON_SAFE_WORDS \cup
       { lower(strip(file.lines[n])) : n \in
           { k \in DOMAIN file.lines :
               LET word == lower(strip(file.lines[k]))
               IN  /\ word # <<>>
                   /\ word \notin banned
                   /\ ~\E swear \in banned :
                         /\ MatchAt(word, 0, swear, FALSE)
                         /\ Len(word) - Len(swear) <= 3 } }

\* Line 349 without the call of lower().
init_swear_words_as_given(swear_words_arg) ==
  { strip(word) : word \in swear_words_arg }

\* Line 349: the banned set built from the constructor's argument.
init_swear_words(swear_words_arg) ==
  { strip(lower(word)) : word \in swear_words_arg }

\* Line 350: the safe set the constructor leaves behind.
init_safe_words == {}

\* ---------------------------------------------------------------------------
\* The cache: a dict, kept as the sequence of its items in insertion order
\* ---------------------------------------------------------------------------

\* Python's None, and a value that is not None.
None == <<>>

Some(v) == <<v>>

\* Truth value of an optional boolean: None and False are falsy.
Truthy(x) == x = Some(TRUE)

HasKey(cache, key) == \E i \in DOMAIN cache : cache[i][1] = key

\* A lookup that ignores the key and answers with the oldest item.
_get_cached_result_oldest(cache, key) ==
  IF cache # <<>> THEN Some(cache[1][2]) ELSE None

\* Lines 427-428: dict.get.
_get_cached_result(cache, key) ==
  IF HasKey(cache, key)
    THEN Some(cache[CHOOSE i \in DOMAIN cache : cache[i][1] = key][2])
    ELSE None

\* Line 432 with > in place of >=.
CacheFull_beyond(cache, max_size) == Len(cache) > max_size

\* Line 432: the cache is full.
CacheFull(cache, max_size) == Len(cache) >= max_size

\* Line 433 removing the item inserted last.
PopFirst_newest(cache) == SubSeq(cache, 1, Len(cache) - 1)

\* Line 433: pop(next(iter(cache))) removes the item inserted first.
PopFirst(cache) == Tail(cache)

\* Line 434 storing positive verdicts only.
SetItem_positive_only(cache, key, value) ==
  IF ~value THEN cache
  ELSE IF HasKey(cache, key)
    THEN [i \in DOMAIN cache |->
            IF cache[i][1] = key THEN <<key, value>> ELSE cache[i]]
    ELSE Append(cache, <<key, value>>)

\* Line 434: dict item assignment; an existing key keeps its position.
SetItem(cache, key, value) ==
  IF HasKey(cache, key)
    THEN [i \in DOMAIN cache |->
            IF cache[i][1] = key THEN <<key, value>> ELSE cache[i]]
    ELSE Append(cache, <<key, value>>)

\* ---------------------------------------------------------------------------
\* asyncio.Lock: a flag and the FIFO queue of the tasks waiting for it
\* ---------------------------------------------------------------------------

NewLock == [locked |-> FALSE, waiters |-> <<>>]

\* An acquire() that never waits.
CanAcquire_always(lock) == TRUE

\* acquire() succeeds at once when the lock is free and nobody waits.
CanAcquire(lock) == ~lock.locked /\ lock.waiters = <<>>

\* A release() that leaves the flag set.
Released_still_locked(lock) == lock

\* release() clears the flag; the first waiter is the one woken.
Released(lock) == [lock EXCEPT !.locked = FALSE]

\* ---------------------------------------------------------------------------
\* Instances, messages and callers
\* ---------------------------------------------------------------------------

\* Concurrent callers of contains_swear_word on one instance.
NumTasks == 2

Tasks == 1..NumTasks

\* Line 353 sets cache_max_size to 1000; the model keeps a cache of this
\* size so that it fills and evicts within a few calls.
cache_max_size == 2

\* Arguments given to the constructor.
BannedInputs ==
  { {},
    { <<"a", "s", "s">>, <<" ", "A", "S", "S">>, <<"A", "s", "s", " ">> },
    { <<"c", "o", "c", "k">> },
    { <<"c", "o", "c", "k">>, <<" ">> } }

\* Messages sent to an instance built by the constructor alone.
Messages ==
  { <<>>, <<"a", "5", "5">>, <<"a", "s", ".", "s">>, <<"c", "o", "c", "k", "p", "i", "t">>, <<"w", "t", "f">>, <<"a", "s">>,
    <<"f", "4", "k">> }

\* Arguments given to the constructor of an instance whose owner then
\* installs load_safe_words(swear_words) as safe_words.
SafeBannedInputs == { { <<"f", "a", "n">>, <<"c", "o", "c", "k">> } }

\* Contents of english-words.60 for those instances.
SafeWordFiles ==
  { NoFile,
    FileOf(<< <<"C", "o", "c", "k", "p", "i", "t", " ">>, <<"f", "a", "n">>,
              <<"f", "a", "n", "s">>, <<" ", "O", "K">>, <<>> >>) }

\* Messages sent to those instances.
SafeMessages ==
  { <<>>, <<"c", "0", "c", "k">>, <<"c", ".", "o", "c", "k">>,
    <<"f", "a", "n", "n", "y">>, <<"w", "t", "f">>, <<"k", "o", "k">>,
    <<"c", "o", "c", "k", "t", "a", "i", "l">>, <<"o", "k">> }

\* Arguments given to the constructor of the instances that receive disguised
\* spellings of their banned term.
DisguiseBannedInputs ==
  { { <<"c", "o", "c", "k">> }, { <<"s", "e", "x", "x">> },
    { <<"a", "s", "s">> } }

\* Messages sent to those instances: a banned term with a hidden separator
\* inside it, or with letters replaced by registered glyphs.
DisguiseMessages ==
  { <<"c", "ZWSP", "o", "c", "k">>, <<"c", "o", "LSEP", "c", "k">>,
    <<"s", "ZWSP", "e", "x", "x">>, <<"c", "(", ")", "c", "k">>,
    <<"c", "*", "c", "k">>, <<"@", "$", "$">> }

\* Arguments given to the constructor of the instances, with
\* load_safe_words(swear_words) installed and no english-words.60, that
\* receive messages several stages could decide.
OrderBannedInputs == { { <<"c", "o", "c", "k">>, <<"f", "a", "n">> } }

\* Messages sent to those instances.
OrderMessages ==
  { <<>>,
    <<"c", "o", "c", "k", " ", "c", "o", "c", "k", "t", "a", "i", "l">>,
    <<"w", "h", "a", "l", "e", " ", "c", ".", "o", "c", "k">>,
    <<"c", ".", "o", "c", "k", " ", "c", "o", "c", "k", "p", "i", "t">>,
    <<"c", ".", "o", "c", "k", " ", "c", "o", "c", "k", "p", "i", "t", " ", "f", ".", "a", "n">>,
    <<"w", "t", "f">>, <<"k", "o", "k">>, <<"o", "k">> }

\* Every string of at most n characters of chars.
RECURSIVE StringsUpTo(_, _)
StringsUpTo(chars, n) ==
  IF n = 0 THEN { <<>> }
  ELSE LET shorter == StringsUpTo(chars, n - 1)
       IN  shorter \cup { <<c>> \o r : c \in chars, r \in shorter }

\* Arguments given to expand_all_normalizations: words of a character with
\* three bases, one with two, a letter, and one that is not registered.
MaxWordLength == 3
WordInputs == StringsUpTo({ "1", "@", "a", "." }, MaxWordLength)

MaxCap == 4
CapInputs == 1..MaxCap \cup { DefaultMaxVariants }

\* Arguments given to preprocess_text_for_filtering.
MaxTextLength == 5
TextInputs ==
  StringsUpTo({ "a", "A", "b", ".", " ", "ZWSP", "LSEP" }, MaxTextLength)

\* The terms a guild's moderators add and remove, as split_words returns them.
GuildWords == { <<"a", "s", "s">>, <<"c", "o", "c", "k">> }

\* The message posted in that guild and given to its tests.
GuildMessages == { <<"c", "o", "c", "k", "p", "i", "t">> }

\* The instances and messages above, as (message, banned set, safe set).
StagesDomain ==
  { <<m, init_swear_words(a), init_safe_words>> :
      m \in Messages, a \in BannedInputs }
  \cup
  { <<m, init_swear_words(a), init_safe_words>> :
      m \in DisguiseMessages, a \in DisguiseBannedInputs }
  \cup
  { <<m, init_swear_words(a), load_safe_words(init_swear_words(a), NoFile)>> :
      m \in OrderMessages, a \in OrderBannedInputs }
  \cup
  { <<m, init_swear_words(a), load_safe_words(init_swear_words(a), f)>> :
      m \in SafeMessages, a \in SafeBannedInputs, f \in SafeWordFiles }
  \cup
  { <<m, init_swear_words(a), init_safe_words>> :
      m \in GuildMessages, a \in SUBSET GuildWords }

\* Stages, tabulated over StagesDomain.
StagesTable == [k \in StagesDomain |-> Stages(k[1], k[2], k[3])]

StagesOf(m, banned, safe) == StagesTable[<<m, banned, safe>>]

\* The stages after the cache probe, in the order of lines 551-609.
StageOrder ==
  << "nothing_to_check", "raw_token", "safe_word", "direct", "root_suffix",
     "short_form", "phonetic", "default" >>

\* The condition under which a stage returns; line 608 always does.
Decides(name, message, banned, safe) ==
  LET normalized == preprocess_text_for_filtering(message)
      words      == words_in_message(normalized)
  IN  CASE name = "nothing_to_check" -> NothingToCheck(message, banned)
        [] name = "raw_token"   -> RawTokenMatch(message, banned)
        [] name = "safe_word"   -> SafeWordBypass(words, banned, safe)
        [] name = "direct"      -> DirectMatch(message, words, banned)
        [] name = "root_suffix" -> RootSuffixMatch(message, words, banned)
        [] name = "short_form"  -> ShortFormMatch(words)
        [] name = "phonetic"    -> PhoneticMatch(message, normalized, banned)
        [] name = "default"     -> TRUE

\* What a stage returns.
StageVerdict(name) ==
  name \in { "raw_token", "direct", "root_suffix", "short_form", "phonetic" }

\* Decides, tabulated over StagesDomain and StageOrder.
DecidesTable ==
  [k \in StagesDomain |->
     [n \in DOMAIN StageOrder |-> Decides(StageOrder[n], k[1], k[2], k[3])]]

\* The tokens of the normalised message, lines 563-564, tabulated over the
\* messages of StagesDomain.
WordsTable ==
  [m \in { k[1] : k \in StagesDomain } |->
     words_in_message(preprocess_text_for_filtering(m))]

NormalizedWords(m) == WordsTable[m]

\* Some token of the message is a banned term the whitelist does not clear
\* (lines 575-576), tabulated over StagesDomain.
UnvetoedTable ==
  [k \in StagesDomain |->
     \E i \in DOMAIN WordsTable[k[1]] :
       /\ WordsTable[k[1]][i] \in k[2]
       /\ ~_check_context(k[1], WordsTable[k[1]][i])]

\* ---------------------------------------------------------------------------
\* State
\* ---------------------------------------------------------------------------

VARIABLES
  terms,          \* the constructor's argument
  inputs,         \* the messages callers send to this instance
  swear_words,    \* self.swear_words
  safe_words,     \* self.safe_words
  message_cache,  \* self.message_cache
  cache_lock,     \* self.cache_lock
  pc,             \* where each call of contains_swear_word stands
  msg,        \* its argument
  result,         \* the verdict it computed or read, then returns
  stage,          \* the exit path it took
  evicted,        \* whether its cache write popped an item
  expand_word,    \* expand_all_normalizations: its word argument
  expand_cap,     \* its max_variants argument
  expand_out,     \* the set it returned
  prep_text,      \* preprocess_text_for_filtering: its text argument
  prep_out,       \* what it returned for the text, then for what it returned
  stored_row,     \* the guild's row of the table swear_data
  load_cache,     \* the lru_cache of load_swear_data, for this guild's id
  guild_filters,  \* guild_filters[guild_id], the enforcement filter
  swear_filter,   \* GuildState.swear_filter of the same guild
  open_modals,    \* the TestModals sent and not submitted yet, counted
  channel_views   \* swear_data of each ChannelSettingsView on screen

vars == << terms, inputs, swear_words, safe_words, message_cache, cache_lock,
           pc, msg, result, stage, evicted,
           expand_word, expand_cap, expand_out, prep_text, prep_out,
           stored_row, load_cache, guild_filters, swear_filter, open_modals,
           channel_views >>

instance == << terms, inputs, swear_words, safe_words >>

\* The module-level functions called on their own.
functions == << expand_word, expand_cap, expand_out, prep_text, prep_out >>

\* Everything contains_swear_word reads or writes.
filter == << instance, message_cache, cache_lock, pc, msg, result, stage,
            evicted >>

\* What the bot keeps for one guild.
guild == << stored_row, load_cache, guild_filters, swear_filter, open_modals,
           channel_views >>

\* No SwearFilter: a guild_filters without the guild's key, and the None
\* that gui.py line 32 leaves in GuildState.swear_filter.
NoFilter == [built |-> FALSE, swear_words |-> {}, message_cache |-> <<>>]

\* The bot holds nothing for the guild and no handler has run.
NoGuild ==
  /\ stored_row = None
  /\ load_cache = <<>>
  /\ guild_filters = NoFilter
  /\ swear_filter = NoFilter
  /\ open_modals = 0
  /\ channel_views = <<>>

\* No module-level function is called on its own.
NoFunctionCall ==
  /\ expand_word = <<>>
  /\ expand_cap = DefaultMaxVariants
  /\ expand_out = None
  /\ prep_text = <<>>
  /\ prep_out = <<>>

\* Lines 348-354, every caller idle.
Constructed(swear_words_arg) ==
  /\ terms = swear_words_arg
  /\ swear_words = init_swear_words(swear_words_arg)
  /\ message_cache = <<>>
  /\ cache_lock = NewLock
  /\ pc = [t \in Tasks |-> "idle"]
  /\ msg = [t \in Tasks |-> <<>>]
  /\ result = [t \in Tasks |-> None]
  /\ stage = [t \in Tasks |-> "none"]
  /\ evicted = [t \in Tasks |-> FALSE]

Init ==
  /\ \E a \in BannedInputs : Constructed(a)
  /\ safe_words = init_safe_words
  /\ inputs = Messages
  /\ NoFunctionCall
  /\ NoGuild

\* The constructor followed by safe_words = load_safe_words(swear_words).
InitSafe ==
  /\ \E a \in SafeBannedInputs : Constructed(a)
  /\ \E f \in SafeWordFiles : safe_words = load_safe_words(swear_words, f)
  /\ inputs = SafeMessages
  /\ NoFunctionCall
  /\ NoGuild

\* The constructor alone, for the instances that receive disguised spellings.
InitDisguise ==
  /\ \E a \in DisguiseBannedInputs : Constructed(a)
  /\ safe_words = init_safe_words
  /\ inputs = DisguiseMessages
  /\ NoFunctionCall
  /\ NoGuild

\* The constructor followed by safe_words = load_safe_words(swear_words),
\* for the instances that receive messages several stages could decide.
InitOrder ==
  /\ \E a \in OrderBannedInputs : Constructed(a)
  /\ safe_words = load_safe_words(swear_words, NoFile)
  /\ inputs = OrderMessages
  /\ NoFunctionCall
  /\ NoGuild

\* ---------------------------------------------------------------------------
\* contains_swear_word, one step per stretch between suspension points
\* ---------------------------------------------------------------------------

\* A caller starts contains_swear_word(m).
Call(t, m) ==
  /\ pc[t] = "idle"
  /\ pc' = [pc EXCEPT ![t] = "probe"]
  /\ msg' = [msg EXCEPT ![t] = m]
  /\ UNCHANGED << instance, functions, guild, message_cache, cache_lock, result, stage, evicted >>

\* Lines 548-609 up to the call of _cache_message_result: the probe, and on
\* a falsy probe the stages.
Probe(t) ==
  /\ pc[t] = "probe"
  /\ LET cached == _get_cached_result(message_cache, msg[t])
         r      == StagesOf(msg[t], swear_words, safe_words)
     IN  IF Truthy(cached)
           THEN /\ pc' = [pc EXCEPT ![t] = "done"]
                /\ result' = [result EXCEPT ![t] = cached]
                /\ stage' = [stage EXCEPT ![t] = "cache"]
           ELSE /\ pc' = [pc EXCEPT ![t] = "acquire"]
                /\ result' = [result EXCEPT ![t] = Some(r.verdict)]
                /\ stage' = [stage EXCEPT ![t] = r.stage]
  /\ UNCHANGED << instance, functions, guild, message_cache, cache_lock, msg, evicted >>

\* Line 431: cache_lock.acquire(); the caller queues when the lock is taken
\* or others wait.
Acquire(t) ==
  /\ pc[t] = "acquire"
  /\ IF CanAcquire(cache_lock)
       THEN /\ cache_lock' = [cache_lock EXCEPT !.locked = TRUE]
            /\ pc' = [pc EXCEPT ![t] = "evict"]
       ELSE /\ cache_lock' = [cache_lock EXCEPT !.waiters = Append(@, t)]
            /\ pc' = [pc EXCEPT ![t] = "wait"]
  /\ UNCHANGED << instance, functions, guild, message_cache, msg, result, stage, evicted >>

\* Line 431, continued: the first waiter takes the released lock.
Resume(t) ==
  /\ pc[t] = "wait"
  /\ ~cache_lock.locked
  /\ cache_lock.waiters # <<>>
  /\ Head(cache_lock.waiters) = t
  /\ cache_lock' = [locked |-> TRUE, waiters |-> Tail(cache_lock.waiters)]
  /\ pc' = [pc EXCEPT ![t] = "evict"]
  /\ UNCHANGED << instance, functions, guild, message_cache, msg, result, stage, evicted >>

\* Lines 432-433.
Evict(t) ==
  /\ pc[t] = "evict"
  /\ IF CacheFull(message_cache, cache_max_size)
       THEN IF message_cache = <<>>
              THEN /\ pc' = [pc EXCEPT ![t] = "raised"]
                   /\ UNCHANGED << message_cache, evicted >>
              ELSE /\ message_cache' = PopFirst(message_cache)
                   /\ evicted' = [evicted EXCEPT ![t] = TRUE]
                   /\ pc' = [pc EXCEPT ![t] = "insert"]
       ELSE /\ pc' = [pc EXCEPT ![t] = "insert"]
            /\ UNCHANGED << message_cache, evicted >>
  /\ UNCHANGED << instance, functions, guild, cache_lock, msg, result, stage >>

\* Line 434, the release of the lock on leaving the block, and the return
\* statement that follows the call.
Insert(t) ==
  /\ pc[t] = "insert"
  /\ message_cache' = SetItem(message_cache, msg[t], result[t][1])
  /\ cache_lock' = Released(cache_lock)
  /\ pc' = [pc EXCEPT ![t] = "done"]
  /\ UNCHANGED << instance, functions, guild, msg, result, stage, evicted >>

\* The caller takes the returned verdict.
Return(t) ==
  /\ pc[t] = "done"
  /\ pc' = [pc EXCEPT ![t] = "idle"]
  /\ msg' = [msg EXCEPT ![t] = <<>>]
  /\ result' = [result EXCEPT ![t] = None]
  /\ stage' = [stage EXCEPT ![t] = "none"]
  /\ evicted' = [evicted EXCEPT ![t] = FALSE]
  /\ UNCHANGED << instance, functions, guild, message_cache, cache_lock >>

Next ==
  \E t \in Tasks :
    \/ \E m \in inputs : Call(t, m)
    \/ Probe(t)
    \/ Acquire(t)
    \/ Resume(t)
    \/ Evict(t)
    \/ Insert(t)
    \/ Return(t)

Spec == Init /\ [][Next]_vars

SpecSafe == InitSafe /\ [][Next]_vars

SpecDisguise == InitDisguise /\ [][Next]_vars

SpecOrder == InitOrder /\ [][Next]_vars

\* ---------------------------------------------------------------------------
\* The module-level functions, called on arguments of their own
\* ---------------------------------------------------------------------------

\* An instance nobody calls.
Unused ==
  /\ Constructed({})
  /\ safe_words = init_safe_words
  /\ inputs = {}

InitExpand ==
  /\ Unused
  /\ NoGuild
  /\ expand_word \in WordInputs
  /\ expand_cap \in CapInputs
  /\ expand_out = None
  /\ prep_text = <<>>
  /\ prep_out = <<>>

\* expand_all_normalizations(expand_word, expand_cap) returns.
Expand ==
  /\ expand_out = None
  /\ expand_out' = Some(expand_all_normalizations(expand_word, expand_cap))
  /\ UNCHANGED << filter, guild, expand_word, expand_cap, prep_text, prep_out >>

\* A caller picks the next arguments.
ExpandNext ==
  /\ expand_out # None
  /\ expand_word' \in WordInputs
  /\ expand_cap' \in CapInputs
  /\ expand_out' = None
  /\ UNCHANGED << filter, guild, prep_text, prep_out >>

NextExpand == Expand \/ ExpandNext

SpecExpand == InitExpand /\ [][NextExpand]_vars

InitPreprocess ==
  /\ Unused
  /\ NoGuild
  /\ expand_word = <<>>
  /\ expand_cap = DefaultMaxVariants
  /\ expand_out = None
  /\ prep_text \in TextInputs
  /\ prep_out = <<>>

\* preprocess_text_for_filtering(prep_text) returns.
Preprocess ==
  /\ prep_out = <<>>
  /\ prep_out' = << preprocess_text_for_filtering(prep_text) >>
  /\ UNCHANGED << filter, guild, expand_word, expand_cap, expand_out, prep_text >>

\* preprocess_text_for_filtering, called on what it returned, returns.
PreprocessAgain ==
  /\ Len(prep_out) = 1
  /\ prep_out' = Append(prep_out, preprocess_text_for_filtering(prep_out[1]))
  /\ UNCHANGED << filter, guild, expand_word, expand_cap, expand_out, prep_text >>

NextPreprocess == Preprocess \/ PreprocessAgain

SpecPreprocess == InitPreprocess /\ [][NextPreprocess]_vars

\* ---------------------------------------------------------------------------
\* The bot: one guild's stored row, its filters and the handlers that use them
\* ---------------------------------------------------------------------------

\* The argument of a command or the value of a modal, after split_words.
WordLists == { << <<"c", "o", "c", "k">> >> }

\* The channels of the guild.
Channels == { "general", "spam" }

\* The channel argument of /setallowedswear and /unsetallowedswear.
ChannelArguments == { "spam" }

\* The row a guild has before any handler runs: none, or one with a term and
\* an allowed channel.
StoredRows ==
  { None,
    Some([swear_words |-> << <<"a", "s", "s">> >>,
          allowed_channels |-> << "spam" >>]) }

\* The channel selections of a ChannelSettingsView when its Toggle button is
\* pressed.
Selections == { <<>> } \cup { << c >> : c \in ChannelArguments }

\* The TestModals sent and not yet submitted that are followed at a time.
MaxModals == 2

\* The ChannelSettingsViews on screen that are followed at a time.
MaxViews == 1

\* How the database may answer the calls of a handler: the outcomes its
\* selects for load_swear_data may have and the outcomes its calls of
\* save_swear_data may have.  Every call has its own try ... except and
\* takes one of them on its own.
Outcomes == [load |-> BOOLEAN, save |-> BOOLEAN]

\* A database that answers every call.
Working == [load |-> { TRUE }, save |-> { TRUE }]

\* The elements of a list.
Range(list) == { list[i] : i \in DOMAIN list }

\* list.remove(x): the first x goes.
RemoveFirst(list, x) ==
  LET first == CHOOSE i \in DOMAIN list :
                 list[i] = x /\ \A k \in 1..(i - 1) : list[k] # x
  IN  SubSeq(list, 1, first - 1) \o SubSeq(list, first + 1, Len(list))

\* database.py lines 194-197: the defaults of get_swear_data.
Defaults == [swear_words |-> <<>>, allowed_channels |-> <<>>]

\* The row, the lru_cache entry and the dicts the views hold, together.  A
\* view's dict is cached while it is the object the lru_cache holds.
Store == [row |-> stored_row, cache |-> load_cache, views |-> channel_views]

\* cache_clear(): the dicts the views hold are no longer the cached one.
Detached(views) ==
  [i \in DOMAIN views |-> [views[i] EXCEPT !.cached = FALSE]]

\* database.py lines 142-160, as the set of the results the call may have.
\* A cached answer is returned without a select; otherwise the select gives
\* the row, None when there is no row, and None again when it raises;
\* lru_cache keeps whichever was returned.  The lists are stored as JSON
\* text, which gives a list of strings back unchanged.
load_swear_data(store, outcomes) ==
  IF store.cache # <<>>
    THEN { [store |-> store, data |-> store.cache[1]] }
    ELSE { LET data == IF succeeds THEN store.row ELSE None
           IN  [store |-> [store EXCEPT !.cache = << data >>], data |-> data] :
             succeeds \in outcomes }

\* database.py lines 162-186, as the set of the results the call may have:
\* update or insert, then cache_clear(); on an exception nothing is written,
\* the cache is kept and False is returned.
save_swear_data(store, data, outcomes) ==
  { IF succeeds
      THEN [store    |-> [row |-> Some(data), cache |-> <<>>,
                          views |-> Detached(store.views)],
            returned |-> TRUE]
      ELSE [store |-> store, returned |-> FALSE] :
      succeeds \in outcomes }

\* database.py lines 188-204, as the set of the results the call may have.
\* cached: the dict returned is the one the lru_cache holds, so that the
\* caller's changes to it are seen by later calls.
get_swear_data(store, outcome) ==
  UNION
    { IF loaded.data = None
        THEN { [store |-> saved.store, data |-> Defaults, cached |-> FALSE] :
                 saved \in save_swear_data(loaded.store, Defaults,
                                           outcome.save) }
        ELSE { [store |-> loaded.store, data |-> loaded.data[1],
                cached |-> TRUE] } :
        loaded \in load_swear_data(store, outcome.load) }

\* The store once the dict the lru_cache holds has been changed to data:
\* every view that holds that dict sees the change.
ChangedCached(store, data) ==
  [row   |-> store.row,
   cache |-> << Some(data) >>,
   views |-> [i \in DOMAIN store.views |->
                IF store.views[i].cached
                  THEN [store.views[i] EXCEPT !.data = data]
                  ELSE store.views[i]]]

\* The store once the caller has changed the dict it got to data.
Changed(got, data) ==
  IF got.cached THEN ChangedCached(got.store, data) ELSE got.store

\* The dict get_swear_data returns when the database answers.
CurrentData == (CHOOSE got \in get_swear_data(Store, Working) : TRUE).data

\* The list get_swear_data returns when the database answers.
CurrentList == CurrentData.swear_words

\* SwearFilter(list): lines 348-354 of swear_filter.py.
NewFilter(list) ==
  [built |-> TRUE, swear_words |-> init_swear_words(Range(list)),
   message_cache |-> <<>>]

\* contains_swear_word (swear_filter.py lines 547-609) called by one caller
\* at a time: the instance it leaves and the verdict it returns.
contains_swear_word(self, message) ==
  LET cached == _get_cached_result(self.message_cache, message)
      r      == StagesOf(message, self.swear_words, init_safe_words)
      room   == IF CacheFull(self.message_cache, cache_max_size)
                  THEN PopFirst(self.message_cache)
                  ELSE self.message_cache
  IN  IF Truthy(cached)
        THEN [self |-> self, verdict |-> TRUE]
        ELSE [self    |-> [self EXCEPT !.message_cache =
                                     SetItem(room, message, r.verdict)],
              verdict |-> r.verdict]

InitGuild ==
  /\ Unused
  /\ NoFunctionCall
  /\ stored_row \in StoredRows
  /\ load_cache = <<>>
  /\ guild_filters = NoFilter
  /\ swear_filter = NoFilter
  /\ open_modals = 0
  /\ channel_views = <<>>

\* The handler leaves the row, the lru_cache and the views' dicts as store.
Stored(store) ==
  /\ stored_row' = store.row
  /\ load_cache' = store.cache
  /\ channel_views' = store.views

\* main.py lines 819-846: on_message.
OnMessage(m, channel, immune, outcome) ==
  \E got \in get_swear_data(Store, outcome) :
    LET present == IF guild_filters.built THEN guild_filters
                   ELSE NewFilter(got.data.swear_words)
        checked == contains_swear_word(present, m)
    IN  /\ Stored(got.store)
        /\ IF immune \/ channel \in Range(got.data.allowed_channels)
             THEN guild_filters' = present
             ELSE guild_filters' = checked.self
        /\ UNCHANGED << filter, functions, swear_filter, open_modals >>

\* main.py lines 945-950: on_guild_join, the event that builds the
\* enforcement filter whatever there was; on_ready, lines 927-937, has no
\* @bot.event and is never dispatched.
OnGuildJoin(outcome) ==
  \E got \in get_swear_data(Store, outcome) :
    /\ Stored(got.store)
    /\ guild_filters' = NewFilter(got.data.swear_words)
    /\ UNCHANGED << filter, functions, swear_filter, open_modals >>

\* database.py line 182, reached by a save for another guild: cache_clear()
\* empties the lru_cache for every guild.
OtherGuildSaved ==
  /\ load_cache' = <<>>
  /\ channel_views' = Detached(channel_views)
  /\ UNCHANGED << filter, functions, stored_row, guild_filters, swear_filter,
                  open_modals >>

\* main.py lines 616-632 with ensure_filter_initialized, lines 261-265.
TestSwear(m, outcome) ==
  IF guild_filters.built
    THEN LET checked == contains_swear_word(guild_filters, m)
         IN  /\ guild_filters' = checked.self
             /\ UNCHANGED << filter, functions, stored_row, load_cache,
                             channel_views, swear_filter, open_modals >>
    ELSE \E got \in get_swear_data(Store, outcome) :
           LET checked == contains_swear_word(
                            NewFilter(got.data.swear_words), m)
           IN  /\ Stored(got.store)
               /\ guild_filters' = checked.self
               /\ UNCHANGED << filter, functions, swear_filter, open_modals >>

\* main.py lines 462-468: /listswears reads the list.
ListSwears(outcome) ==
  \E got \in get_swear_data(Store, outcome) :
    /\ Stored(got.store)
    /\ UNCHANGED << filter, functions, guild_filters, swear_filter,
                    open_modals >>

\* main.py lines 586-608: /listallowed reads the channels.
ListAllowed(outcome) ==
  \E got \in get_swear_data(Store, outcome) :
    /\ Stored(got.store)
    /\ UNCHANGED << filter, functions, guild_filters, swear_filter,
                    open_modals >>

\* main.py lines 808-817 with create_dashboard, gui.py lines 114-135:
\* /sweargui builds a DashboardView, whose _create_embed reads the data at
\* line 207, and reads it again at line 127, with no suspension between.
SwearGui(outcome) ==
  \E got \in get_swear_data(Store, outcome) :
  \E again \in get_swear_data(got.store, outcome) :
    /\ Stored(again.store)
    /\ UNCHANGED << filter, functions, guild_filters, swear_filter,
                    open_modals >>

\* gui.py lines 207, 257, 445, 552 and 561: a button builds a dashboard, a
\* word manager or a remove view, or a remove modal is submitted, and reads
\* once the data it shows.
ShowView(outcome) ==
  \E got \in get_swear_data(Store, outcome) :
    /\ Stored(got.store)
    /\ UNCHANGED << filter, functions, guild_filters, swear_filter,
                    open_modals >>

\* main.py lines 394-426: /addswear, as the set of the results it may have:
\* the store and the enforcement filter it leaves and the reply it sends.
add_swear(store, enforcing, list, permitted, outcome) ==
  IF ~permitted
    THEN { [store |-> store, enforcing |-> enforcing, reply |-> "denied"] }
    ELSE UNION
      { LET old   == got.data.swear_words
            added == SelectSeq(list, LAMBDA w : w \notin Range(old))
            data  == [got.data EXCEPT !.swear_words = old \o added]
        IN  IF added = <<>>
              THEN { [store |-> got.store, enforcing |-> enforcing,
                      reply |-> "already_there"] }
              ELSE { [store     |-> saved.store,
                      enforcing |-> NewFilter(data.swear_words),
                      reply     |-> "added"] :
                       saved \in save_swear_data(Changed(got, data), data,
                                                 outcome.save) } :
          got \in get_swear_data(store, outcome) }

\* /addswear runs.
AddSwear(list, permitted, outcome) ==
  \E did \in add_swear(Store, guild_filters, list, permitted, outcome) :
    /\ Stored(did.store)
    /\ guild_filters' = did.enforcing
    /\ UNCHANGED << filter, functions, swear_filter, open_modals >>

\* main.py lines 431-458: /removeswear, as the set of the results it may
\* have.
remove_swear(store, enforcing, list, permitted, outcome) ==
  IF ~permitted
    THEN { [store |-> store, enforcing |-> enforcing, reply |-> "denied"] }
    ELSE UNION
      { LET old     == got.data.swear_words
            removed == SelectSeq(list, LAMBDA w : w \in Range(old))
            data    == [got.data EXCEPT !.swear_words =
                          SelectSeq(old, LAMBDA w : w \notin Range(removed))]
        IN  IF removed = <<>>
              THEN { [store |-> got.store, enforcing |-> enforcing,
                      reply |-> "no_match"] }
              ELSE { [store     |-> saved.store,
                      enforcing |-> NewFilter(data.swear_words),
                      reply     |-> "removed"] :
                       saved \in save_swear_data(Changed(got, data), data,
                                                 outcome.save) } :
          got \in get_swear_data(store, outcome) }

\* /removeswear runs.
RemoveSwear(list, permitted, outcome) ==
  \E did \in remove_swear(Store, guild_filters, list, permitted, outcome) :
    /\ Stored(did.store)
    /\ guild_filters' = did.enforcing
    /\ UNCHANGED << filter, functions, swear_filter, open_modals >>

\* main.py lines 534-556: /setallowedswear.
SetAllowedSwear(channel, permitted, outcome) ==
  IF ~permitted
    THEN UNCHANGED << filter, functions, stored_row, load_cache,
                      channel_views, guild_filters, swear_filter,
                      open_modals >>
    ELSE \E got \in get_swear_data(Store, outcome) :
      LET data == [got.data EXCEPT !.allowed_channels = Append(@, channel)]
      IN  IF channel \in Range(got.data.allowed_channels)
            THEN /\ Stored(got.store)
                 /\ UNCHANGED << filter, functions, guild_filters,
                                 swear_filter, open_modals >>
            ELSE \E saved \in save_swear_data(Changed(got, data), data,
                                              outcome.save) :
                   /\ Stored(saved.store)
                   /\ UNCHANGED << filter, functions, guild_filters,
                                   swear_filter, open_modals >>

\* main.py lines 560-582: /unsetallowedswear.
UnsetAllowedSwear(channel, permitted, outcome) ==
  IF ~permitted
    THEN UNCHANGED << filter, functions, stored_row, load_cache,
                      channel_views, guild_filters, swear_filter,
                      open_modals >>
    ELSE \E got \in get_swear_data(Store, outcome) :
      IF channel \notin Range(got.data.allowed_channels)
        THEN /\ Stored(got.store)
             /\ UNCHANGED << filter, functions, guild_filters,
                             swear_filter, open_modals >>
        ELSE LET data == [got.data EXCEPT !.allowed_channels =
                            RemoveFirst(@, channel)]
             IN  \E saved \in save_swear_data(Changed(got, data), data,
                                              outcome.save) :
                   /\ Stored(saved.store)
                   /\ UNCHANGED << filter, functions, guild_filters,
                                   swear_filter, open_modals >>

\* gui.py lines 357-385: the word manager's Add button, from the moment the
\* modal returns a value; refresh_filter, lines 41-45, loads again.
GuiAddWords(list, outcome) ==
  \E got \in get_swear_data(Store, outcome) :
    LET old   == got.data.swear_words
        added == SelectSeq(list, LAMBDA w : w \notin Range(old))
        data  == [got.data EXCEPT !.swear_words = old \o added]
    IN  IF added = <<>>
          THEN /\ Stored(got.store)
               /\ UNCHANGED << filter, functions, guild_filters,
                               swear_filter, open_modals >>
          ELSE \E saved \in save_swear_data(Changed(got, data), data,
                                            outcome.save) :
               \E refresh \in get_swear_data(saved.store, outcome) :
                 /\ Stored(refresh.store)
                 /\ swear_filter' = NewFilter(refresh.data.swear_words)
                 /\ guild_filters' =
                      IF guild_filters.built
                        THEN NewFilter(data.swear_words)
                        ELSE guild_filters
                 /\ UNCHANGED << filter, functions, open_modals >>

\* gui.py lines 508-530, and the same statements at lines 620-642: the word
\* manager's Remove buttons, from the moment a selection is there;
\* refresh_filter, lines 41-45, loads again, and so does the
\* WordManagerView built at the end, line 257.
GuiRemoveWords(list, outcome) ==
  \E got \in get_swear_data(Store, outcome) :
    LET data == [got.data EXCEPT !.swear_words =
                   SelectSeq(got.data.swear_words,
                             LAMBDA w : w \notin Range(list))]
    IN  \E saved \in save_swear_data(Changed(got, data), data, outcome.save) :
        \E refresh \in get_swear_data(saved.store, outcome) :
        \E view \in get_swear_data(refresh.store, outcome) :
          /\ Stored(view.store)
          /\ swear_filter' = NewFilter(refresh.data.swear_words)
          /\ guild_filters' =
               IF guild_filters.built
                 THEN NewFilter(data.swear_words)
                 ELSE guild_filters
          /\ UNCHANGED << filter, functions, open_modals >>

\* gui.py lines 233-237 and 773-778: the Channel Settings button builds a
\* ChannelSettingsView, which keeps the dict get_swear_data returned.
OpenChannelSettings(outcome) ==
  /\ Len(channel_views) < MaxViews
  /\ \E got \in get_swear_data(Store, outcome) :
       /\ stored_row' = got.store.row
       /\ load_cache' = got.store.cache
       /\ channel_views' =
            Append(got.store.views, [data |-> got.data, cached |-> got.cached])
       /\ UNCHANGED << filter, functions, guild_filters, swear_filter,
                       open_modals >>

\* gui.py lines 867-874: the loop of _toggle_channels over the selection.
RECURSIVE ToggledChannels(_, _, _)
ToggledChannels(allowed, selected, changes) ==
  IF selected = <<>> THEN [allowed |-> allowed, changes |-> changes]
  ELSE IF Head(selected) \in Range(allowed)
    THEN ToggledChannels(RemoveFirst(allowed, Head(selected)),
                         Tail(selected), changes - 1)
    ELSE ToggledChannels(Append(allowed, Head(selected)),
                         Tail(selected), changes + 1)

\* gui.py lines 862-883: the Toggle button of the i-th view changes the dict
\* the view has kept since it was built and saves that dict, word list
\* included.
ToggleChannels(i, selected, outcome) ==
  /\ i \in DOMAIN channel_views
  /\ LET kept    == channel_views[i]
         toggled == ToggledChannels(kept.data.allowed_channels, selected, 0)
         data    == [kept.data EXCEPT !.allowed_channels = toggled.allowed]
         own     == [Store EXCEPT !.views[i].data = data]
         changed == IF kept.cached THEN ChangedCached(Store, data) ELSE own
     IN  IF selected = <<>>
           THEN UNCHANGED << stored_row, load_cache, channel_views >>
           ELSE IF toggled.changes # 0
             THEN \E saved \in save_swear_data(changed, data, outcome.save) :
                    Stored(saved.store)
             ELSE Stored(changed)
  /\ UNCHANGED << filter, functions, guild_filters, swear_filter,
                  open_modals >>

\* gui.py lines 171-175: the i-th view times out and takes no more clicks.
ViewTimeout(i) ==
  /\ i \in DOMAIN channel_views
  /\ channel_views' =
       SubSeq(channel_views, 1, i - 1)
         \o SubSeq(channel_views, i + 1, Len(channel_views))
  /\ UNCHANGED << filter, functions, stored_row, load_cache, guild_filters,
                  swear_filter, open_modals >>

\* gui.py lines 238-245: the Test button; refresh_filter, lines 41-45, then
\* one more TestModal is sent.
OpenTestModal(outcome) ==
  /\ open_modals < MaxModals
  /\ \E got \in get_swear_data(Store, outcome) :
       /\ Stored(got.store)
       /\ swear_filter' = NewFilter(got.data.swear_words)
       /\ open_modals' = open_modals + 1
       /\ UNCHANGED << filter, functions, guild_filters >>

\* gui.py lines 919-923: on_submit of one of the TestModals; get_filter,
\* lines 34-39, builds an instance only when there is none.
SubmitTestModal(m, outcome) ==
  /\ open_modals > 0
  /\ IF swear_filter.built
       THEN LET checked == contains_swear_word(swear_filter, m)
            IN  /\ swear_filter' = checked.self
                /\ UNCHANGED << stored_row, load_cache, channel_views >>
       ELSE \E got \in get_swear_data(Store, outcome) :
              LET checked == contains_swear_word(
                               NewFilter(got.data.swear_words), m)
              IN  /\ Stored(got.store)
                  /\ swear_filter' = checked.self
  /\ open_modals' = open_modals - 1
  /\ UNCHANGED << filter, functions, guild_filters >>

\* The handlers, with a database whose calls answer as outcome allows.
NextGuild(outcome) ==
  \/ \E m \in GuildMessages, channel \in Channels, immune \in BOOLEAN :
       OnMessage(m, channel, immune, outcome)
  \/ OnGuildJoin(outcome)
  \/ OtherGuildSaved
  \/ \E m \in GuildMessages : TestSwear(m, outcome)
  \/ ListSwears(outcome)
  \/ ListAllowed(outcome)
  \/ SwearGui(outcome)
  \/ ShowView(outcome)
  \/ \E list \in WordLists, permitted \in BOOLEAN :
       AddSwear(list, permitted, outcome)
  \/ \E list \in WordLists, permitted \in BOOLEAN :
       RemoveSwear(list, permitted, outcome)
  \/ \E channel \in ChannelArguments, permitted \in BOOLEAN :
       SetAllowedSwear(channel, permitted, outcome)
  \/ \E channel \in ChannelArguments, permitted \in BOOLEAN :
       UnsetAllowedSwear(channel, permitted, outcome)
  \/ \E list \in WordLists : GuiAddWords(list, outcome)
  \/ \E list \in WordLists : GuiRemoveWords(list, outcome)
  \/ OpenChannelSettings(outcome)
  \/ \E i \in 1..MaxViews, selected \in Selections :
       ToggleChannels(i, selected, outcome)
  \/ \E i \in 1..MaxViews : ViewTimeout(i)
  \/ OpenTestModal(outcome)
  \/ \E m \in GuildMessages : SubmitTestModal(m, outcome)

\* The bot with a database whose calls may fail.
SpecGuild == InitGuild /\ [][NextGuild(Outcomes)]_vars

\* The bot with a database that always answers.
SpecGuildWorking == InitGuild /\ [][NextGuild(Working)]_vars



\* The event loop runs every call that is ready to run: a call that is not
\* suspended takes its next step, and the first waiter of a free lock is
\* resumed.  Callers are free to stop calling.
Step(t) == Probe(t) \/ Acquire(t) \/ Resume(t) \/ Evict(t) \/ Insert(t)

Fairness == \A t \in Tasks : WF_vars(Step(t))

FairSpec == Init /\ [][Next]_vars /\ Fairness

\* ---------------------------------------------------------------------------
\* Properties
\* ---------------------------------------------------------------------------

Done(t) == pc[t] = "done"

\* The step in which call t leaves the probe.
LeavesProbe(t) == pc[t] = "probe" /\ pc'[t] # "probe"

\* The step in which call t returns.
Returns(t) == pc[t] # "done" /\ pc'[t] = "done"

\* C1, as stated: a call whose message is a key of the cache returns the
\* stored verdict straight from the probe, without running the stages and
\* without a later cache write, whether the stored verdict is True or False.
C1_HitReturnsStoredVerdict ==
  [][\A t \in Tasks :
       (LeavesProbe(t) /\ HasKey(message_cache, msg[t]))
         => /\ pc'[t] = "done"
            /\ stage'[t] = "cache"
            /\ result'[t] = _get_cached_result(message_cache, msg[t])]_vars

\* C2: the verdict a call returns, and every verdict the cache holds, is the
\* verdict the stages give for that message with the instance's banned set,
\* whatever the cache held when the call was made.
C2_VerdictDependsOnMessageOnly ==
  /\ \A t \in Tasks :
       Done(t) =>
         result[t] = Some(StagesOf(msg[t], swear_words, safe_words).verdict)
  /\ \A i \in DOMAIN message_cache :
       message_cache[i][2] =
         StagesOf(message_cache[i][1], swear_words, safe_words).verdict

\* A call answered from the cache, next to a call whose write popped an item.
C2_Witness ==
  \E t, u \in Tasks :
    /\ Done(t)
    /\ stage[t] = "cache"
    /\ Done(u)
    /\ evicted[u]

\* C3: the cache never holds more than cache_max_size items.
C3_CacheBounded == Len(message_cache) <= cache_max_size

\* A call returned after its write popped an item of the full cache.
C3_Witness ==
  \E t \in Tasks :
    /\ Done(t)
    /\ evicted[t]
    /\ Len(message_cache) = cache_max_size

\* C4: a call that returns on any path other than the cache probe has
\* written its verdict to the cache under its message when it returns.
C4_VerdictCachedBeforeReturn ==
  [][\A t \in Tasks :
       (Returns(t) /\ stage'[t] # "cache")
         => _get_cached_result(message_cache', msg'[t]) = result'[t]]_vars

\* Two calls returned, one vetoed by a safe word and one decided by the
\* phonetic stage, each with its verdict in the cache.
C4_Witness ==
  \E t, u \in Tasks :
    /\ Done(t)
    /\ stage[t] = "safe_word"
    /\ _get_cached_result(message_cache, msg[t]) = Some(FALSE)
    /\ Done(u)
    /\ stage[u] = "phonetic"
    /\ _get_cached_result(message_cache, msg[u]) = Some(TRUE)

\* C5: the empty message gets False for every banned set, and an instance
\* without banned terms gets False for every message.
C5_NothingToCheckIsClean ==
  \A t \in Tasks :
    (Done(t) /\ (msg[t] = <<>> \/ swear_words = {}))
      => result[t] = Some(FALSE)

\* An instance without banned terms returned False for a message that is in
\* SHORT_SWEARS.
C5_Witness ==
  \E t \in Tasks :
    /\ Done(t)
    /\ swear_words = {}
    /\ msg[t] \in SHORT_SWEARS
    /\ result[t] = Some(FALSE)

\* C6: every call returns, with a boolean and without raising, also when it
\* has to wait for the cache lock.
C6_CallsReturnBoolean ==
  /\ [](\A t \in Tasks : pc[t] # "raised")
  /\ [](\A t \in Tasks : Done(t) => result[t] \in { Some(TRUE), Some(FALSE) })
  /\ \A t \in Tasks : (pc[t] = "probe") ~> Done(t)

\* A call queued on the lock that another call holds.
C6_Witness ==
  \E t \in Tasks :
    /\ pc[t] = "wait"
    /\ cache_lock.locked
    /\ cache_lock.waiters = << t >>

UpperLetters == DOMAIN LowerTable

\* C7: every banned term is lower case and has no surrounding whitespace,
\* terms of the argument that differ in case or surrounding whitespace only
\* are one element, and no step changes the banned set.
C7_BannedSetNormalisedAndFixed ==
  /\ [](\A w \in swear_words :
          /\ \A i \in DOMAIN w : w[i] \notin UpperLetters
          /\ w # <<>> => (w[1] \notin Whitespace /\ w[Len(w)] \notin Whitespace))
  /\ [](swear_words = { lower(strip(a)) : a \in terms })
  /\ [][swear_words' = swear_words]_vars

\* Three spellings of one term became one element, and a call has returned.
C7_Witness ==
  /\ Cardinality(terms) = 3
  /\ Cardinality(swear_words) = 1
  /\ \E t \in Tasks : Done(t)

\* C8, as stated: an instance built by the constructor alone has
\* COMMON_SAFE_WORDS as its safe set.
C8_BuiltInSafeWordsInstalled == safe_words = COMMON_SAFE_WORDS

\* C9, as stated: a message that is a safe word and not a banned term gets
\* False, also when a banned term is a substring of it.
C9_SafeWordMessageIsClean ==
  \A t \in Tasks :
    (Done(t) /\ msg[t] \in safe_words /\ msg[t] \notin swear_words)
      => result[t] = Some(FALSE)

\* C10, as stated: a one-word message that a whitelist pattern of the only
\* banned term matches gets False.
C10_WhitelistedWordIsClean ==
  \A t \in Tasks :
    (/\ Done(t)
     /\ Len(words_raw(msg[t])) = 1
     /\ \E w \in swear_words :
          swear_words = {w} /\ _check_context(msg[t], w))
      => result[t] = Some(FALSE)

\* word with the separator c inserted after its first i characters.
Inserted(word, i, c) ==
  SubSeq(word, 1, i) \o <<c>> \o SubSeq(word, i + 1, Len(word))

\* word with one code point of HIDDEN_SEPARATORS strictly inside it.
SeparatorInside(word) ==
  { Inserted(word, i, HIDDEN_SEPARATORS[j]) :
      i \in 1..(Len(word) - 1), j \in DOMAIN HIDDEN_SEPARATORS }

\* The glyphs COMBINED_SUBSTITUTIONS registers for a letter.
Glyphs(letter) ==
  UNION { { COMBINED_SUBSTITUTIONS[i][2][j] :
              j \in DOMAIN COMBINED_SUBSTITUTIONS[i][2] } :
          i \in { k \in DOMAIN COMBINED_SUBSTITUTIONS :
                    COMBINED_SUBSTITUTIONS[k][1] = letter } }

\* The spellings of word in which each letter is replaced by a glyph
\* registered for it.
RECURSIVE Respellings(_)
Respellings(word) ==
  IF word = <<>> THEN { <<>> }
  ELSE { g \o r : g \in Glyphs(Head(word)), r \in Respellings(Tail(word)) }

\* C11, as stated: a message that is a banned term with a hidden separator
\* inserted strictly inside it gets True.
C11_HiddenSeparatorIsFlagged ==
  \A t \in Tasks :
    (Done(t) /\ \E w \in swear_words : msg[t] \in SeparatorInside(w))
      => result[t] = Some(TRUE)

\* C12, as stated: a message that is a banned term of ASCII letters with each
\* letter replaced by a glyph registered for it gets True.
C12_RespelledTermIsFlagged ==
  \A t \in Tasks :
    (/\ Done(t)
     /\ \E w \in swear_words :
          /\ \A i \in DOMAIN w : w[i] \in AsciiLetters
          /\ msg[t] \in Respellings(w))
      => result[t] = Some(TRUE)

\* REVERSE_SUBSTITUTIONS.get(char, {char}), as a set.
Options(char) ==
  IF <<char>> \in DOMAIN REVERSE_SUBSTITUTIONS
  THEN REVERSE_SUBSTITUTIONS[<<char>>]
  ELSE { char }

\* The full per-character product: every string that takes, at each
\* position, one of the options of the character of word there.
RECURSIVE FullProduct(_)
FullProduct(word) ==
  IF word = <<>> THEN { <<>> }
  ELSE { <<c>> \o r : c \in Options(Head(word)), r \in FullProduct(Tail(word)) }

C14_PreprocessIdempotent ==
  Len(prep_out) = 2 => prep_out[2] = prep_out[1]

\* C15, as stated: the output of preprocess_text_for_filtering never has two
\* adjacent equal characters.
C15_NoAdjacentEqualCharacters ==
  Len(prep_out) >= 1 =>
    \A i \in 1..(Len(prep_out[1]) - 1) : prep_out[1][i] # prep_out[1][i + 1]

\* The positions of the cache that hold key.
Entries(cache, key) == { i \in DOMAIN cache : cache[i][1] = key }

\* Call t is between the acquisition and the release of the cache lock.
InWrite(t) == pc[t] \in { "evict", "insert" }

\* C16: when a call that ran the stages returns, every call in flight for
\* the same message that has a verdict has the same verdict, and the cache
\* holds exactly one entry for the message, with that verdict, and no more
\* than cache_max_size entries; and the write of a call whose message
\* another call in flight has already written loses no entry of the cache.
C16_ConcurrentCallsAgree ==
  [][\A t \in Tasks :
       /\ (pc[t] = "insert" /\ pc'[t] = "done") =>
            /\ \A u \in Tasks :
                 (msg[u] = msg[t] /\ result[u] # None) => result[u] = result[t]
            /\ Cardinality(Entries(message_cache', msg[t])) = 1
            /\ _get_cached_result(message_cache', msg[t]) = result[t]
            /\ Len(message_cache') <= cache_max_size
       /\ ( /\ pc[t] = "evict" /\ pc'[t] = "insert"
            /\ \E u \in Tasks \ { t } :
                 /\ msg[u] = msg[t]
                 /\ pc[u] = "done"
                 /\ stage[u] \notin { "cache", "none" } ) =>
            \A i \in DOMAIN message_cache :
              \E j \in DOMAIN message_cache' :
                message_cache'[j] = message_cache[i]]_vars

\* C17: at most one call at a time is between the acquisition and the
\* release of the cache lock, and then the lock is held; while a call is
\* there no other call changes the cache; and a call that stands at the
\* probe can run the stages while another call holds the lock.
C17_WritesAreSerialized ==
  /\ [](\A t, u \in Tasks : (InWrite(t) /\ InWrite(u)) => t = u)
  /\ [](\A t \in Tasks : InWrite(t) => cache_lock.locked)
  /\ [](\A t, u \in Tasks :
          (InWrite(t) /\ pc[u] = "probe") => ENABLED Probe(u))
  /\ [][\A t \in Tasks :
          (InWrite(t) /\ InWrite(t)') => message_cache' = message_cache
                                          \/ pc'[t] # pc[t]]_vars

\* One call holds the lock after its eviction, another has run the stages
\* and waits for the lock.
C17_Witness ==
  \E t, u \in Tasks :
    /\ pc[t] = "insert"
    /\ evicted[t]
    /\ pc[u] = "wait"
    /\ result[u] # None

\* C18: a call the probe did not answer returns from the first stage, in
\* the order nothing-to-check, raw token, safe word, direct, root+suffix,
\* short form, phonetic, default, whose condition holds, with that stage's
\* verdict; so a raw-token match gives True whatever the later stages would
\* say.  A call the probe answered returns a true cached verdict.
C18_FirstDecidingStageWins ==
  \A t \in Tasks :
    Done(t) =>
      IF stage[t] = "cache" THEN Truthy(result[t])
      ELSE LET d == DecidesTable[<<msg[t], swear_words, safe_words>>]
           IN  \E n \in DOMAIN StageOrder :
                 /\ StageOrder[n] = stage[t]
                 /\ d[n]
                 /\ \A j \in 1..(n - 1) : ~d[j]
                 /\ result[t] = Some(StageVerdict(stage[t]))

\* A message with a raw token that is a banned term, a token that is a safe
\* word and a whitelist pattern of the banned term got True from the
\* raw-token stage.
C18_Witness ==
  \E t \in Tasks :
    /\ Done(t)
    /\ stage[t] = "raw_token"
    /\ result[t] = Some(TRUE)
    /\ SafeWordBypass(NormalizedWords(msg[t]), swear_words, safe_words)
    /\ \E w \in swear_words : _check_context(msg[t], w)

\* C19: a message without a raw-token match (the second stage), one of whose
\* normalised tokens is a safe word and not a banned term, gets False,
\* whatever its other tokens are.
C19_SafeWordVetoesMessage ==
  \A t \in Tasks :
    (/\ Done(t)
     /\ ~DecidesTable[<<msg[t], swear_words, safe_words>>][2]
     /\ \E i \in DOMAIN NormalizedWords(msg[t]) :
          /\ NormalizedWords(msg[t])[i] \in safe_words
          /\ NormalizedWords(msg[t])[i] \notin swear_words)
      => result[t] = Some(FALSE)

\* A message with a safe word and, as another token, a banned term got
\* False from the veto.
C19_Witness ==
  \E t \in Tasks :
    /\ Done(t)
    /\ stage[t] = "safe_word"
    /\ result[t] = Some(FALSE)
    /\ \E i \in DOMAIN NormalizedWords(msg[t]) :
         NormalizedWords(msg[t])[i] \in swear_words

\* Some token of message m is a banned term the whitelist does not clear.
UnvetoedToken(m) == UnvetoedTable[<<m, swear_words, safe_words>>]

\* C20: a call that reaches the direct-match stage returns True from it
\* exactly when some token is a banned term the message is not whitelisted
\* for; otherwise, also when a token is a whitelisted banned term, the
\* verdict is that of the root+suffix, short-form and phonetic stages.
C20_WhitelistVetoesTokenOnly ==
  \A t \in Tasks :
    (/\ Done(t)
     /\ stage[t] \notin { "cache", "nothing_to_check", "raw_token",
                          "safe_word" })
      => LET d == DecidesTable[<<msg[t], swear_words, safe_words>>]
         IN  /\ stage[t] = "direct" <=> UnvetoedToken(msg[t])
             /\ stage[t] = "direct" => result[t] = Some(TRUE)
             /\ ~UnvetoedToken(msg[t])
                   => result[t] = Some(d[5] \/ d[6] \/ d[7])

\* A message with a token that is a whitelisted banned term got True from
\* the root+suffix stage.
C20_Witness ==
  \E t \in Tasks :
    /\ Done(t)
    /\ stage[t] = "root_suffix"
    /\ result[t] = Some(TRUE)
    /\ \E i \in DOMAIN NormalizedWords(msg[t]) :
         /\ NormalizedWords(msg[t])[i] \in swear_words
         /\ _check_context(msg[t], NormalizedWords(msg[t])[i])

\* C21, as stated: a call that returns from the root+suffix stage has a
\* token with a window that expands to a banned term of at least three
\* characters, followed by at most three characters, and the message
\* matches no whitelist pattern of that banned term.
C21_RootSuffixHonoursWhitelist ==
  \A t \in Tasks :
    (Done(t) /\ stage[t] = "root_suffix") =>
      LET words == NormalizedWords(msg[t])
      IN  \E n \in DOMAIN words : \E swear \in swear_words :
            /\ Len(swear) >= 3
            /\ \E i \in 0..(Len(words[n]) - Len(swear)) :
                 /\ swear \in expand_all_normalizations(
                               Slice(words[n], i, i + Len(swear)),
                               DefaultMaxVariants)
                 /\ Len(words[n]) - (i + Len(swear)) <= 3
            /\ ~_check_context(msg[t], swear)

\* C22, as stated: a call that reaches the short-form stage with a message
\* of one token gets True when the token, as it is or without leetspeak
\* digits and symbols, is at most three characters long and in SHORT_SWEARS.
C22_ShortFormSecondaryPass ==
  \A t \in Tasks :
    (/\ Done(t)
     /\ stage[t] \in { "short_form", "phonetic", "default" }
     /\ Len(NormalizedWords(msg[t])) = 1
     /\ _check_short_swears(NormalizedWords(msg[t])[1]))
      => result[t] = Some(TRUE)

\* C26, as stated: a True verdict comes with a banned term of the instance
\* matching in the raw-token, direct, root+suffix or phonetic stage.
C26_VerdictAttributableToBannedTerm ==
  \A t \in Tasks :
    (Done(t) /\ result[t] = Some(TRUE)) =>
      LET d == DecidesTable[<<msg[t], swear_words, safe_words>>]
      IN  d[2] \/ d[4] \/ d[5] \/ d[7]

\* C27, as stated: an instance whose banned set holds the empty term next to
\* other terms gives every message the verdict of the instance built
\* without the empty term.
C27_EmptyTermIsInert ==
  \A t \in Tasks :
    (Done(t) /\ <<>> \in swear_words /\ swear_words # { <<>> }) =>
      result[t] = Some(StagesOf(msg[t], swear_words \ { <<>> },
                                safe_words).verdict)

\* C23, as stated: the output of preprocess_text_for_filtering holds no
\* code point of HIDDEN_SEPARATORS, and it is the output for the text with
\* those code points removed first.
C23_HiddenSeparatorsRemovedFirst ==
  Len(prep_out) >= 1 =>
    /\ \A i \in DOMAIN prep_out[1] :
         \A j \in DOMAIN HIDDEN_SEPARATORS :
           prep_out[1][i] # HIDDEN_SEPARATORS[j]
    /\ prep_out[1] =
         preprocess_text_for_filtering(remove_hidden_chars(prep_text))

\* C24: a cache write that finds cache_max_size entries removes exactly the
\* entry inserted earliest and then stores its own; a write that finds fewer
\* removes nothing; and a probe, hit or miss, leaves the cache and its order
\* as they are.
C24_EvictsOldestWhenFull ==
  [][\A t \in Tasks :
       /\ (pc[t] = "evict" /\ pc'[t] = "insert") =>
            IF Len(message_cache) = cache_max_size
              THEN message_cache' = Tail(message_cache) /\ evicted'[t]
              ELSE message_cache' = message_cache /\ ~evicted'[t]
       /\ (pc[t] = "insert" /\ pc'[t] = "done") =>
            /\ _get_cached_result(message_cache', msg[t]) = result[t]
            /\ \A i \in DOMAIN message_cache :
                 message_cache[i][1] # msg[t]
                   => message_cache'[i] = message_cache[i]
            /\ Len(message_cache') <= Len(message_cache) + 1
       /\ (pc[t] = "probe" /\ pc'[t] # "probe") =>
            message_cache' = message_cache]_vars

\* A write found the cache full, removed the oldest entry and stored its own
\* as the newest.
C24_Witness ==
  \E t \in Tasks :
    /\ Done(t)
    /\ evicted[t]
    /\ Len(message_cache) = cache_max_size
    /\ message_cache[Len(message_cache)] = <<msg[t], result[t][1]>>

\* C25, as stated: a cache write for a key that is in the cache removes no
\* other entry.
C25_RewriteEvictsNothing ==
  [][\A t \in Tasks :
       (pc[t] = "evict" /\ pc'[t] = "insert"
          /\ HasKey(message_cache, msg[t])) =>
         \A i \in DOMAIN message_cache :
           message_cache[i][1] # msg[t] =>
             \E j \in DOMAIN message_cache' :
               message_cache'[j] = message_cache[i]]_vars

\* ---------------------------------------------------------------------------
\* The guild's list and the filters built from it
\* ---------------------------------------------------------------------------

\* The filter was built from the list get_swear_data returns now.
BuiltFromCurrentList(f) ==
  f.built /\ f.swear_words = init_swear_words(Range(CurrentList))

\* This step left what the command left in the case did.
Sent(did) ==
  /\ stored_row' = did.store.row
  /\ load_cache' = did.store.cache
  /\ channel_views' = did.store.views
  /\ guild_filters' = did.enforcing

\* C28: once /addswear, /removeswear or the word manager has changed the
\* guild's list, the enforcement filter, when there is one, is a new
\* instance built from the new list with an empty cache; and every check,
\* by on_message, /testswear or the Test modal, is answered by an instance
\* built from the guild's current list.
C28_ChecksUseFilterOfCurrentList ==
  [][ /\ ( \E list \in WordLists :
             \/ /\ Range(list) \ Range(CurrentList) # {}
                /\ AddSwear(list, TRUE, Working) \/ GuiAddWords(list, Working)
             \/ /\ Range(list) \cap Range(CurrentList) # {}
                /\ \/ RemoveSwear(list, TRUE, Working)
                   \/ GuiRemoveWords(list, Working) )
           => \/ ~guild_filters'.built
              \/ guild_filters' = NewFilter(CurrentList')
      /\ ( \E m \in GuildMessages :
             \/ \E channel \in Channels \ Range(CurrentData.allowed_channels) :
                  OnMessage(m, channel, FALSE, Working)
             \/ TestSwear(m, Working) )
           => BuiltFromCurrentList(guild_filters)'
      /\ (\E m \in GuildMessages : SubmitTestModal(m, Working))
           => BuiltFromCurrentList(swear_filter)' ]_vars

\* C29: when save_swear_data returns False during /addswear or
\* /removeswear, the list get_swear_data returns afterwards and the banned
\* set of the enforcement filter are what they were before the command, and
\* the command does not answer with its success message.
C29_FailedSaveChangesNothing ==
  [][ \A list \in WordLists :
        LET failing == [load |-> { TRUE }, save |-> { FALSE }]
        IN  ( \/ AddSwear(list, TRUE, failing)
              \/ RemoveSwear(list, TRUE, failing) )
            => /\ CurrentList' = CurrentList
               /\ guild_filters'.swear_words = guild_filters.swear_words
               /\ \A did \in
                       add_swear(Store, guild_filters, list, TRUE, failing)
                         \cup remove_swear(Store, guild_filters, list, TRUE,
                                           failing) :
                    Sent(did) => did.reply \notin { "added", "removed" }
    ]_vars

\* C30: a get_swear_data for a guild that has a stored row leaves the row as
\* it is, whether load_swear_data succeeds or fails; the defaults are
\* written only when the guild has no row.
C30_LoadFailureKeepsStoredRow ==
  [][ (ListSwears(Outcomes) /\ stored_row # None)
        => stored_row' = stored_row ]_vars

=============================================================================
